---- MODULE Spec2Model ----
(***************************************************************************)
(* Escrow claim engine of the WhatsApp AVAX wallet bot: claim holds        *)
(* (ClaimsService.createHold), claim settlement                            *)
(* (ClaimsService.validateAndClaim) and the expiry sweep                   *)
(* (ClaimsService.refundExpired, driven by the 30 second poller timer),    *)
(* over the `claims` collection of the document store.                     *)
(*                                                                         *)
(* The claim path exists in two copies that differ only in the gas check   *)
(* (fixed buffer, dynamic buffer); `build` says which one is deployed.     *)
(* The store, the wallet service and the chain are collaborators: a store  *)
(* write, a gas estimate and a broadcast each succeed or fail, chosen      *)
(* nondeterministically; `broadcasts` logs the transfers that were         *)
(* accepted, and a transaction hash is its index in that log.              *)
(*                                                                         *)
(* Amounts are integers in units of 0.00001 AVAX, so that the buffers      *)
(* 0.0005 / 0.001 / 0.0001 and the 10% and 90% fractions are exact.        *)
(* Time is an integer clock in days (the hold window is expiryDays).       *)
(* Every await of the code is a step boundary: other callers and timer     *)
(* runs interleave between the steps of one call.                          *)
(*                                                                         *)
(* The claim-link send is modelled from the inbound message on:            *)
(* CommandHandler.handleMessage, the pendingTransactions map shared with   *)
(* TransactionHandler, handleTransactionConfirmation, and                  *)
(* TransactionHandler.executePendingTransaction, which creates the custody *)
(* wallet, broadcasts the hold transfer and calls createHold; `transfers`  *)
(* logs the transfers the executor broadcast.                              *)
(***************************************************************************)
EXTENDS Integers, Naturals, Sequences, FiniteSets, TLC

(* ---------------------------- bounds ----------------------------------- *)
MaxClaims == 1
MaxGridAmount == 1200
MaxGridGas == 1100
SweepClaims == 2
MaxTime == 4
MaxBroadcasts == 2
NumClaimers == 1
NumSweeps == 1
RaceClaimers == 2
RaceSweeps == 2
MaxExecutions == 2
MaxProposals == 2
NumProposers == 1
RaceProposers == 2
MaxRecords == 4
NumReconcilers == 2
MaxChatTime == 1

(* The generated tokens the log model draws from.                          *)
MaxTokenTexts == 2

(* The largest maxRetries withRetry is called with, and the base delays.   *)
MaxRetryArg == 3

(* The most records the executor writes in a long run of sends.            *)
MaxBacklog == 51

(* The most calls of sendMessage.                                          *)
MaxMessages == 3
BaseDelays == {1000, 2000}

(* A token is 16 random bytes in hexadecimal; the log shows the first 8    *)
(* characters of a token and the first 10 of a 42-character address.       *)
TokenChars == 32
PrefixChars == 8
AddressChars == 42
AddressPrefixChars == 10

(* ------------------------ program constants ---------------------------- *)
ExpiryDays == 3
ClaimMinGasBuffer == 50
MinGasBuffer == 50
MaxGasBuffer == 100
MinNetAmount == 10
SmallAmountFloor == 1000

(* ------------------------------ inputs --------------------------------- *)
SenderPhone == "s"
RecipientPhones == {"r"}
ClaimerPhones == {"r", "x"}
Amounts == {80, 300}
GasEstimates == {21, 40}
Token(i) == <<"token", i>>
NoToken == <<>>
ClaimBuilds == {"static", "dynamic"}

(* Tokens callers present: issued ones, one never issued, and none.        *)
PresentedTokens == {Token(i) : i \in 0..SweepClaims} \cup {NoToken}

(* Requesters of the confirmation handler, what they send and to whom.     *)
Requesters == {SenderPhone}
SendCommands ==
  {[recipientPhone |-> "", amount |-> 2000]}
    \cup {[recipientPhone |-> r, amount |-> a] : r \in RecipientPhones, a \in {300, 2000}}
Texts == {"confirm", "cancel", "both", "other", "send"}

(* A user of the bot whose wallet the scanner watches.                     *)
WatchedUser == "u"

(* The phones allowed to run admin commands, the phones that can be in a   *)
(* conversation state, and the texts of commands: "/admin" stands for any  *)
(* text that starts with it.                                               *)
AdminNumbers == {"919489042245"}
StateUsers == Requesters \cup {WatchedUser}
Phones == StateUsers \cup AdminNumbers
AdminTexts == {"/status", "/reset", "/admin"}
CommandTexts == AdminTexts \cup {"help"}
StatefulTexts == AdminTexts \cup {"cancel", "other"}
AwaitingStates == {"AWAITING_AMOUNT_FOR_CONTACT", "AWAITING_AMOUNT_FOR_UNREGISTERED"}
RegisteredAddress == <<"wallet", "registered">>

Executors == 1..MaxExecutions
Proposers == 1..(IF NumProposers >= RaceProposers THEN NumProposers ELSE RaceProposers)

(* Transactions on the chain that the `transactions` collection can hold a *)
(* record of: a send the bot broadcast to another user's wallet, a send it *)
(* broadcast to an address outside the bot, and a transfer into a user's   *)
(* wallet from outside.                                                    *)
Hashes == {"to_user", "to_outside", "from_outside"}

(* The hashes of the sends of a long run of sends.                         *)
BacklogHash(i) == "send_" \o ToString(i)
BacklogHashes == {BacklogHash(i) : i \in 1..MaxBacklog}
Reconcilers == 1..NumReconcilers

Claimers == 1..(IF NumClaimers >= RaceClaimers THEN NumClaimers ELSE RaceClaimers)
Sweeps == 1..(IF NumSweeps >= RaceSweeps THEN NumSweeps ELSE RaceSweeps)

VARIABLES now, build, claims, holdResult, holdReturn, claimer, sweep, broadcasts,
          calcAmount, calcGas, calcResult,
          pendingTransactions, proposing, proposals, dispatch, exec,
          wallets, transfers, transactions, discarded,
          userStates, receipts, reconciler, scanner, logCall, logs,
          retry, wa

escrowVars == <<now, build, claims, holdResult, holdReturn, claimer, sweep, broadcasts>>

(* Inputs and outcome of one evaluation of the claim path's gas check.     *)
calcVars == <<calcAmount, calcGas, calcResult>>

(* The confirmation handler and the executor of confirmed operations:      *)
(* the pending entry of each requester, send commands being validated,     *)
(* the number of entries stored so far, the routing of the inbound message *)
(* when the last step was a handleMessage call, the executions, the custody wallets created,  *)
(* the transfers broadcast from requesters' wallets and the `transactions` *)
(* collection.  `discarded` records the entries that left the map without  *)
(* being handed to the executor (cancelled, overwritten, or deleted by an  *)
(* execution that ended).                                                  *)
chatVars == <<pendingTransactions, proposing, proposals, dispatch, exec,
              wallets, transfers, transactions, discarded>>

(* The conversation states of the command handler, the chain's receipts    *)
(* and the poller's reconciler and scanner runs over the `transactions`    *)
(* collection, the call and output of one logging function, one call of   *)
(* withRetry, and the WhatsApp service's connection and outbound queue.    *)
auxVars == <<userStates, receipts, reconciler, scanner, logCall, logs, retry, wa>>

vars == <<escrowVars, calcVars, chatVars, auxVars>>

(* ------------------------- idle values --------------------------------- *)
(* What createHold returned: nothing (it threw, or was never called), or   *)
(* the link and the token.                                                 *)
NoReturn == [link |-> <<>>, token |-> NoToken]

(* userStates.has(phone) false                                             *)
NoState == "none"

IdleReconciler == [pc |-> "idle", pending |-> <<>>, status |-> "none"]

IdleScanner == [pc |-> "idle", hash |-> "none"]

NoCall == [fn |-> "none", missing |-> FALSE, error |-> <<>>]

(* No call of withRetry has been made.                                     *)
IdleRetry ==
  [pc |-> "idle", maxRetries |-> 0, baseDelay |-> 0, attempt |-> 0,
   calls |-> 0, broadcasts |-> 0, errors |-> <<>>, waits |-> <<>>,
   result |-> "none", thrown |-> <<"none">>]

(* whatsapp.js at start: not connected, nothing queued, nothing sent.      *)
InitialWhatsApp ==
  [isConnected |-> FALSE, messageQueue |-> <<>>, flushing |-> <<>>,
   sending |-> {}, socket |-> <<>>, called |-> 0, lost |-> {}]

(* ------------------------- pure helpers -------------------------------- *)
Min(a, b) == IF a <= b THEN a ELSE b
Max(a, b) == IF a >= b THEN a ELSE b

WalletAddress(phone) == <<"wallet", phone>>

(* Variant of HashToken that stores the token as it is.                    *)
HashToken_Plain(token) == token

HashToken(token) == <<"sha256", token>>

BuildClaimLink(token) == <<"https://wa.me/?text=", "CLAIM", token>>

ExpiryDate(t, days) == t + days

ClaimIds == 1..Len(claims)

FindByTokenHash(tokenHash) ==
  IF \E i \in ClaimIds : claims[i].token_hash = tokenHash
  THEN CHOOSE i \in ClaimIds : claims[i].token_hash = tokenHash
  ELSE 0

RECURSIVE IdsAscending(_)
IdsAscending(S) ==
  IF S = {} THEN <<>>
  ELSE LET m == CHOOSE x \in S : \A y \in S : x <= y
       IN <<m>> \o IdsAscending(S \ {m})

(* Variant of FindExpiringPending with the comparison inverted.            *)
FindExpiringPending_NotYetExpired(t) ==
  IdsAscending({i \in ClaimIds : claims[i].status = "pending" /\ claims[i].expires_at > t})

(* Variant of FindExpiringPending without the expires_at filter.           *)
FindExpiringPending_AllPending(t) ==
  IdsAscending({i \in ClaimIds : claims[i].status = "pending"})

FindExpiringPending(t) ==
  IdsAscending({i \in ClaimIds : claims[i].status = "pending" /\ claims[i].expires_at <= t})

UpdateClaimById(id, updateData) ==
  [claims EXCEPT ![id] =
     [f \in DOMAIN claims[id] |->
        IF f \in DOMAIN updateData THEN updateData[f] ELSE claims[id][f]]]

(* Variants of ValidateReason with a check missing or out of order.        *)
ValidateReason_NoExpiry(found, status, recipientPhone, claimerPhone, expiresAt, t) ==
  IF ~found THEN "invalid_link"
  ELSE IF status # "pending" THEN "not_active"
  ELSE IF recipientPhone # claimerPhone THEN "phone_mismatch"
  ELSE "ok"

ValidateReason_NoPhone(found, status, recipientPhone, claimerPhone, expiresAt, t) ==
  IF ~found THEN "invalid_link"
  ELSE IF status # "pending" THEN "not_active"
  ELSE IF expiresAt < t THEN "expired"
  ELSE "ok"

ValidateReason_PhoneFirst(found, status, recipientPhone, claimerPhone, expiresAt, t) ==
  IF ~found THEN "invalid_link"
  ELSE IF recipientPhone # claimerPhone THEN "phone_mismatch"
  ELSE IF status # "pending" THEN "not_active"
  ELSE IF expiresAt < t THEN "expired"
  ELSE "ok"

(* validateAndClaim, checks on the record read from the store, in order.   *)
ValidateReason(found, status, recipientPhone, claimerPhone, expiresAt, t) ==
  IF ~found THEN "invalid_link"
  ELSE IF status # "pending" THEN "not_active"
  ELSE IF recipientPhone # claimerPhone THEN "phone_mismatch"
  ELSE IF expiresAt < t THEN "expired"
  ELSE "ok"

(* Variant of StaticGasReason that ignores the safety buffer.              *)
StaticGasReason_NoBuffer(amount, gasCost) ==
  IF amount <= gasCost THEN "insufficient_for_gas" ELSE "ok"

(* Fixed buffer check (claims service with config.escrow.claimMinGasBuffer) *)
StaticGasReason(amount, gasCost) ==
  IF amount <= gasCost + ClaimMinGasBuffer THEN "insufficient_for_gas" ELSE "ok"

(* Ten times the dynamic buffer: min(max(0.0005, amount * 0.1), 0.001).    *)
GasBufferTimes10(amount) == Min(Max(10 * MinGasBuffer, amount), 10 * MaxGasBuffer)

(* Variant of DynamicGasReason with a strict first comparison.             *)
DynamicGasReason_Strict(amount, gasCost) ==
  LET total10 == 10 * gasCost + GasBufferTimes10(amount)
  IN IF total10 > 9 * amount THEN "too_small_for_gas"
     ELSE IF 10 * amount - total10 < 10 * MinNetAmount THEN "too_small_after_gas"
     ELSE "ok"

(* Dynamic buffer check; all comparisons are scaled by ten.                *)
DynamicGasReason(amount, gasCost) ==
  LET total10 == 10 * gasCost + GasBufferTimes10(amount)
  IN IF total10 >= 9 * amount THEN "too_small_for_gas"
     ELSE IF 10 * amount - total10 < 10 * MinNetAmount THEN "too_small_after_gas"
     ELSE "ok"

ClaimGasReason(b, amount, gasCost) ==
  IF b = "dynamic" THEN DynamicGasReason(amount, gasCost)
  ELSE StaticGasReason(amount, gasCost)

(* Variant of TransferAmount that deducts the buffer as well.              *)
TransferAmount_LessBuffer(amount, gasCost) == amount - gasCost - MinGasBuffer

TransferAmount(amount, gasCost) == amount - gasCost

RefundAmount(amount, gasCost) == amount - gasCost

(* ------------------------------ state ---------------------------------- *)
IdleClaimer ==
  [pc |-> "idle", token |-> NoToken, phone |-> "", rec |-> 0,
   gasCost |-> 0, transferAmount |-> 0, tx |-> 0, reason |-> ""]

IdleSweep ==
  [pc |-> "idle", expired |-> <<>>, gasCost |-> 0, refundAmount |-> 0, tx |-> 0,
   error |-> ""]

(* An entry of the pendingTransactions map: the transactionData of a send  *)
(* awaiting confirmation, or a small-amount warning with the original      *)
(* parameters. `id` is the identity of the stored object and `stored_at`   *)
(* the time of the set() call; the code keeps neither in the entry of a    *)
(* send, they are recorded here to tell entries apart.                     *)
NoEntry ==
  [type |-> "none", to |-> "", recipientPhone |-> "", amount |-> 0, id |-> 0,
   stored_at |-> 0]

NoProposal == [phone |-> "", recipientPhone |-> "", amount |-> 0]

NoDispatch == [text |-> "none", route |-> "none"]

IdleExec ==
  [pc |-> "idle", phone |-> "", data |-> NoEntry, walletId |-> 0, tx |-> 0,
   claim |-> 0, linkSent |-> FALSE, recorded |-> FALSE, error |-> ""]

Init ==
  /\ now = 0
  /\ build \in ClaimBuilds
  /\ claims = <<>>
  /\ holdResult = "none"
  /\ holdReturn = NoReturn
  /\ claimer = [p \in Claimers |-> IdleClaimer]
  /\ sweep = [s \in Sweeps |-> IdleSweep]
  /\ broadcasts = <<>>
  /\ calcAmount = 0
  /\ calcGas = 0
  /\ calcResult = "none"
  /\ pendingTransactions = [r \in Requesters |-> NoEntry]
  /\ proposing = [q \in Proposers |-> NoProposal]
  /\ proposals = 0
  /\ dispatch = NoDispatch
  /\ exec = [e \in Executors |-> IdleExec]
  /\ wallets = 0
  /\ transfers = <<>>
  /\ transactions = <<>>
  /\ discarded = {}
  /\ userStates = [r \in StateUsers |-> NoState]
  /\ receipts = [h \in Hashes \cup BacklogHashes |-> "none"]
  /\ reconciler = [r \in Reconcilers |-> IdleReconciler]
  /\ scanner = IdleScanner
  /\ logCall = NoCall
  /\ logs = <<>>
  /\ retry = IdleRetry
  /\ wa = InitialWhatsApp

Tick ==
  /\ now < MaxTime
  /\ now' = now + 1
  /\ UNCHANGED <<build, claims, holdResult, holdReturn, claimer, sweep, broadcasts>>
  /\ UNCHANGED <<calcVars, chatVars, auxVars>>

(* ----------------------------- createHold ------------------------------ *)
(* A parameter the caller left out (undefined, null, empty string).        *)
Missing == ""

(* The check `!senderPhone || ... || !amountAvax || ...`: a parameter is    *)
(* refused when it is falsy, which for the amount means 0.                 *)
MissingParameters(a) ==
  \/ a.senderPhone = Missing
  \/ a.senderAddress = Missing
  \/ a.recipientPhone = Missing
  \/ a.amountAvax = 0
  \/ a.ephemeralWalletId = Missing
  \/ a.ephemeralWalletAddress = Missing

EphemeralAddress(id) == <<"wallet", "ephemeral", id>>

(* Variant of HoldArgs that passes no hold transaction hash.               *)
HoldArgs_NoHash(senderPhone, recipientPhone, amountAvax, walletId, holdTxHash) ==
  [senderPhone |-> senderPhone, senderAddress |-> WalletAddress(senderPhone),
   recipientPhone |-> recipientPhone, amountAvax |-> amountAvax,
   ephemeralWalletId |-> <<"ephemeral", walletId>>,
   ephemeralWalletAddress |-> EphemeralAddress(walletId),
   holdTxHash |-> 0]

HoldArgs(senderPhone, recipientPhone, amountAvax, walletId, holdTxHash) ==
  [senderPhone |-> senderPhone, senderAddress |-> WalletAddress(senderPhone),
   recipientPhone |-> recipientPhone, amountAvax |-> amountAvax,
   ephemeralWalletId |-> <<"ephemeral", walletId>>,
   ephemeralWalletAddress |-> EphemeralAddress(walletId),
   holdTxHash |-> holdTxHash]

CreateHold(a) ==
  /\ IF MissingParameters(a)
     THEN /\ holdResult' = "missing_parameters"
          /\ holdReturn' = NoReturn
          /\ UNCHANGED claims
     ELSE LET n == Len(claims) + 1
              token == Token(n)
              claimData ==
                [sender_phone |-> a.senderPhone,
                 sender_wallet_address |-> a.senderAddress,
                 recipient_phone |-> a.recipientPhone,
                 token_hash |-> HashToken(token),
                 ephemeral_wallet_id |-> a.ephemeralWalletId,
                 ephemeral_wallet_address |-> a.ephemeralWalletAddress,
                 amount_avax |-> a.amountAvax,
                 status |-> "pending",
                 hold_tx_hash |-> a.holdTxHash,
                 expires_at |-> ExpiryDate(now, ExpiryDays),
                 claim_tx_hash |-> 0, refund_tx_hash |-> 0, gas_cost |-> -1,
                 transfer_amount |-> -1, refund_amount |-> -1,
                 claimed_at |-> -1, error |-> ""]
          IN \/ /\ claims' = Append(claims, claimData)
                /\ holdResult' = "created"
                /\ holdReturn' = [link |-> BuildClaimLink(token), token |-> token]
             \/ /\ holdResult' = "store_error"
                /\ holdReturn' = NoReturn
                /\ UNCHANGED claims
  /\ UNCHANGED <<now, build, claimer, sweep, broadcasts>>
  /\ UNCHANGED <<calcVars, auxVars>>

(* -------------------------- validateAndClaim --------------------------- *)
Finish(p, why) ==
  [IdleClaimer EXCEPT !.token = claimer[p].token, !.phone = claimer[p].phone,
                      !.rec = claimer[p].rec, !.reason = why]

(* Parameter check, findByTokenHash and the checks on the record it         *)
(* returned; the clock is read when the record arrives.                    *)
ClaimStart(p, tokenPlain, claimerPhone) ==
  /\ claimer[p].pc = "idle"
  /\ IF tokenPlain = NoToken
     THEN claimer' = [claimer EXCEPT ![p] =
            [IdleClaimer EXCEPT !.phone = claimerPhone, !.reason = "missing_parameters"]]
     ELSE LET id == FindByTokenHash(HashToken(tokenPlain))
              why == IF id = 0
                     THEN ValidateReason(FALSE, "", "", claimerPhone, 0, now)
                     ELSE ValidateReason(TRUE, claims[id].status, claims[id].recipient_phone,
                                         claimerPhone, claims[id].expires_at, now)
          IN claimer' = [claimer EXCEPT ![p] =
               IF why = "ok"
               THEN [IdleClaimer EXCEPT !.pc = "estimate", !.token = tokenPlain,
                                        !.phone = claimerPhone, !.rec = id]
               ELSE [IdleClaimer EXCEPT !.token = tokenPlain, !.phone = claimerPhone,
                                        !.rec = id, !.reason = why]]
  /\ UNCHANGED <<now, build, claims, holdResult, holdReturn, sweep, broadcasts>>
  /\ UNCHANGED <<calcVars, chatVars, auxVars>>

(* getWalletProvider and estimateGas, then the gas check.                  *)
ClaimEstimate(p) ==
  /\ claimer[p].pc = "estimate"
  /\ LET c == claimer[p]
         amount == claims[c.rec].amount_avax
     IN \/ claimer' = [claimer EXCEPT ![p] = Finish(p, "wallet_unavailable")]
        \/ claimer' = [claimer EXCEPT ![p] = Finish(p, "estimate_failed")]
        \/ \E g \in GasEstimates :
             LET why == ClaimGasReason(build, amount, g)
             IN claimer' = [claimer EXCEPT ![p] =
                  IF why = "ok"
                  THEN [c EXCEPT !.pc = "broadcast", !.gasCost = g,
                                 !.transferAmount = TransferAmount(amount, g)]
                  ELSE Finish(p, why)]
  /\ UNCHANGED <<now, build, claims, holdResult, holdReturn, sweep, broadcasts>>
  /\ UNCHANGED <<calcVars, chatVars, auxVars>>

ClaimBroadcast(p) ==
  /\ claimer[p].pc = "broadcast"
  /\ LET c == claimer[p]
         hash == Len(broadcasts) + 1
     IN \/ /\ Len(broadcasts) < MaxBroadcasts
           /\ broadcasts' = Append(broadcasts,
                 [claim |-> c.rec, kind |-> "claim", to |-> WalletAddress(c.phone),
                  amount |-> c.transferAmount, gas |-> c.gasCost])
           /\ claimer' = [claimer EXCEPT ![p] = [c EXCEPT !.pc = "write", !.tx = hash]]
        \/ /\ UNCHANGED broadcasts
           /\ claimer' = [claimer EXCEPT ![p] = Finish(p, "transaction_failed")]
  /\ UNCHANGED <<now, build, claims, holdResult, holdReturn, sweep>>
  /\ UNCHANGED <<calcVars, chatVars, auxVars>>

ClaimWrite(p) ==
  /\ claimer[p].pc = "write"
  /\ LET c == claimer[p]
     IN \/ /\ claims' = UpdateClaimById(c.rec,
                 [status |-> "claimed", claim_tx_hash |-> c.tx, gas_cost |-> c.gasCost,
                  transfer_amount |-> c.transferAmount, claimed_at |-> now])
           /\ claimer' = [claimer EXCEPT ![p] =
                 [Finish(p, "claimed") EXCEPT !.tx = c.tx, !.gasCost = c.gasCost,
                                              !.transferAmount = c.transferAmount]]
        \/ /\ UNCHANGED claims
           /\ claimer' = [claimer EXCEPT ![p] = Finish(p, "store_error")]
  /\ UNCHANGED <<now, build, holdResult, holdReturn, sweep, broadcasts>>
  /\ UNCHANGED <<calcVars, chatVars, auxVars>>

(* ----------------------------- refundExpired --------------------------- *)
NextRecord(s) ==
  LET rest == Tail(sweep[s].expired)
  IN [IdleSweep EXCEPT !.pc = IF rest = <<>> THEN "idle" ELSE "estimate",
                       !.expired = rest]

Caught(s, msg) ==
  [sweep[s] EXCEPT !.pc = "catch", !.error = msg]

SweepStart(s) ==
  /\ sweep[s].pc = "idle"
  /\ LET expired == FindExpiringPending(now)
     IN sweep' = [sweep EXCEPT ![s] =
          [IdleSweep EXCEPT !.pc = IF expired = <<>> THEN "idle" ELSE "estimate",
                            !.expired = expired]]
  /\ UNCHANGED <<now, build, claims, holdResult, holdReturn, claimer, broadcasts>>
  /\ UNCHANGED <<calcVars, chatVars, auxVars>>

SweepEstimate(s) ==
  /\ sweep[s].pc = "estimate"
  /\ LET id == Head(sweep[s].expired)
         amount == claims[id].amount_avax
     IN \/ /\ sweep' = [sweep EXCEPT ![s] = Caught(s, "estimate_failed")]
           /\ UNCHANGED claims
        \/ \E g \in GasEstimates :
             IF StaticGasReason(amount, g) # "ok"
             THEN \/ /\ claims' = UpdateClaimById(id,
                           [status |-> "failed", error |-> "Insufficient funds for gas fees"])
                     /\ sweep' = [sweep EXCEPT ![s] = NextRecord(s)]
                  \/ /\ UNCHANGED claims
                     /\ sweep' = [sweep EXCEPT ![s] = Caught(s, "store_error")]
             ELSE /\ sweep' = [sweep EXCEPT ![s] =
                        [sweep[s] EXCEPT !.pc = "broadcast", !.gasCost = g,
                                         !.refundAmount = RefundAmount(amount, g)]]
                  /\ UNCHANGED claims
  /\ UNCHANGED <<now, build, holdResult, holdReturn, claimer, broadcasts>>
  /\ UNCHANGED <<calcVars, chatVars, auxVars>>

SweepBroadcast(s) ==
  /\ sweep[s].pc = "broadcast"
  /\ LET r == sweep[s]
         id == Head(r.expired)
         hash == Len(broadcasts) + 1
         entry == [claim |-> id, kind |-> "refund",
                   to |-> claims[id].sender_wallet_address,
                   amount |-> r.refundAmount, gas |-> r.gasCost]
     IN \/ /\ Len(broadcasts) < MaxBroadcasts
           /\ broadcasts' = Append(broadcasts, entry)
           /\ sweep' = [sweep EXCEPT ![s] = [r EXCEPT !.pc = "write", !.tx = hash]]
        \/ /\ UNCHANGED broadcasts
           /\ sweep' = [sweep EXCEPT ![s] = Caught(s, "transaction_failed")]
  /\ UNCHANGED <<now, build, claims, holdResult, holdReturn, claimer>>
  /\ UNCHANGED <<calcVars, chatVars, auxVars>>

SweepWrite(s) ==
  /\ sweep[s].pc = "write"
  /\ LET r == sweep[s]
         id == Head(r.expired)
     IN \/ /\ claims' = UpdateClaimById(id,
                 [status |-> "refunded", refund_tx_hash |-> r.tx, gas_cost |-> r.gasCost,
                  refund_amount |-> r.refundAmount])
           /\ sweep' = [sweep EXCEPT ![s] = NextRecord(s)]
        \/ /\ UNCHANGED claims
           /\ sweep' = [sweep EXCEPT ![s] = Caught(s, "store_error")]
  /\ UNCHANGED <<now, build, holdResult, holdReturn, claimer, broadcasts>>
  /\ UNCHANGED <<calcVars, chatVars, auxVars>>

SweepCatch(s) ==
  /\ sweep[s].pc = "catch"
  /\ LET id == Head(sweep[s].expired)
     IN \/ /\ claims' = UpdateClaimById(id,
                 [status |-> "failed", error |-> sweep[s].error])
           /\ sweep' = [sweep EXCEPT ![s] = NextRecord(s)]
        \/ /\ UNCHANGED claims
           /\ sweep' = [sweep EXCEPT ![s] = IdleSweep]
  /\ UNCHANGED <<now, build, holdResult, holdReturn, claimer, broadcasts>>
  /\ UNCHANGED <<calcVars, chatVars, auxVars>>

(* ------------------- handleMessage and the send proposal --------------- *)
HasPending(phone) == pendingTransactions[phone] # NoEntry

Routed(text, route) == [text |-> text, route |-> route]

(* The entry handleSendTransaction stores for a validated send.            *)
PendingEntry(p, id) ==
  IF p.recipientPhone # "" /\ p.amount < SmallAmountFloor
  THEN [type |-> "small_amount_confirmation", to |-> "", recipientPhone |-> "",
        amount |-> 0, id |-> id, stored_at |-> now]
  ELSE [type |-> "transaction",
        to |-> IF p.recipientPhone = "" THEN RegisteredAddress ELSE p.recipientPhone,
        recipientPhone |-> p.recipientPhone, amount |-> p.amount, id |-> id,
        stored_at |-> now]

(* isConfirmation and isCancellation over the kinds of text: "confirm" is  *)
(* a text such as yes or a thumbs-up, "cancel" one such as no or a         *)
(* thumbs-down, "both" a text holding a thumbs-up and a thumbs-down, which *)
(* the unanchored emoji patterns of the two functions both match.          *)
IsConfirmation(text) == text \in {"confirm", "both"}

(* Variant of IsCancellation that matches any text.                        *)
IsCancellation_Any(text) == TRUE

IsCancellation(text) == text \in {"cancel", "both"}

(* Variant of DeletePending that leaves the entry in the map.              *)
DeletePending_Keep(phone) == pendingTransactions

(* pendingTransactions.delete(phone)                                       *)
DeletePending(phone) == [pendingTransactions EXCEPT ![phone] = NoEntry]

(* Variant of StorePending that keeps an entry already in the map.         *)
StorePending_IfAbsent(phone, entry) ==
  IF pendingTransactions[phone] # NoEntry THEN pendingTransactions
  ELSE [pendingTransactions EXCEPT ![phone] = entry]

(* pendingTransactions.set(phone, entry)                                   *)
StorePending(phone, entry) == [pendingTransactions EXCEPT ![phone] = entry]

(* The entries discarded once the requester's entry, if any, is dropped,   *)
(* each with what dropped it.                                              *)
Discard(phone, by) ==
  IF HasPending(phone)
  THEN discarded \cup {[id |-> pendingTransactions[phone].id, by |-> by]}
  ELSE discarded

DiscardedIds == {d.id : d \in discarded}

(* handleTransactionConfirmation up to its first await: the entry is read, *)
(* the text classified, and on a confirmation the entry is deleted and the *)
(* executor entered with it.                                               *)
HandleTransactionConfirmation(phone, text) ==
  /\ HasPending(phone)
  /\ \/ /\ IsConfirmation(text)
        /\ \E e \in Executors :
             /\ exec[e].pc = "idle"
             /\ \A f \in Executors : exec[f].pc = "idle" => e <= f
             /\ exec' = [exec EXCEPT ![e] =
                   [IdleExec EXCEPT !.pc = "provider", !.phone = phone,
                                    !.data = pendingTransactions[phone]]]
        /\ pendingTransactions' = DeletePending(phone)
        /\ dispatch' = Routed(text, "executor")
        /\ UNCHANGED discarded
     \/ /\ ~IsConfirmation(text) /\ IsCancellation(text)
        /\ pendingTransactions' = DeletePending(phone)
        /\ discarded' = Discard(phone, "cancel")
        /\ dispatch' = Routed(text, "cancelled")
        /\ UNCHANGED exec
     \/ /\ ~IsConfirmation(text) /\ ~IsCancellation(text)
        /\ dispatch' = Routed(text, "reprompt")
        /\ UNCHANGED <<pendingTransactions, exec, discarded>>
  /\ UNCHANGED <<proposing, proposals, wallets, transfers, transactions>>
  /\ UNCHANGED <<escrowVars, calcVars, auxVars>>

(* A message from a requester without a pending entry: a send command      *)
(* enters handleSendTransaction, anything else goes to the other commands. *)
RouteCommand(phone, text, recipientPhone, amount, q) ==
  /\ ~HasPending(phone)
  /\ userStates[phone] = NoState
  /\ \/ /\ text = "send"
        /\ proposing[q] = NoProposal
        /\ proposing' = [proposing EXCEPT ![q] =
              [phone |-> phone, recipientPhone |-> recipientPhone,
               amount |-> amount]]
        /\ dispatch' = Routed(text, "send_handler")
     \/ /\ text # "send"
        /\ dispatch' = Routed(text, "parser")
        /\ UNCHANGED proposing
  /\ UNCHANGED <<discarded, pendingTransactions, proposals, exec, wallets, transfers, transactions>>
  /\ UNCHANGED <<escrowVars, calcVars, auxVars>>

HandleMessage(phone, text, recipientPhone, amount, q) ==
  \/ HandleTransactionConfirmation(phone, text)
  \/ RouteCommand(phone, text, recipientPhone, amount, q)

(* handleSendTransaction after its lookups: the send is refused, or its    *)
(* entry is stored over whatever the map holds for the requester.          *)
HandleSendTransaction(q) ==
  /\ proposing[q] # NoProposal
  /\ proposing' = [proposing EXCEPT ![q] = NoProposal]
  /\ \/ UNCHANGED <<pendingTransactions, proposals, discarded>>
     \/ /\ proposals < MaxProposals
        /\ proposals' = proposals + 1
        /\ discarded' = Discard(proposing[q].phone, "overwrite")
        /\ pendingTransactions' =
             StorePending(proposing[q].phone, PendingEntry(proposing[q], proposals + 1))
  /\ dispatch' = NoDispatch
  /\ UNCHANGED <<exec, wallets, transfers, transactions>>
  /\ UNCHANGED <<escrowVars, calcVars, auxVars>>

(* transactions.createTransaction(txData)                                  *)
CreateTransaction(txData) == Append(transactions, txData)

(* ----------------------- executePendingTransaction --------------------- *)
(* Variant of Throw in which the error is swallowed and the run goes on.   *)
Throw_Continue(e, msg) == [exec[e] EXCEPT !.pc = "record", !.error = msg]

Throw(e, msg) == [exec[e] EXCEPT !.pc = "catch", !.error = msg]

ExecProvider(e) ==
  /\ exec[e].pc = "provider"
  /\ \/ exec' = [exec EXCEPT ![e].pc =
                   IF exec[e].data.recipientPhone # "" THEN "wallet" ELSE "send"]
     \/ exec' = [exec EXCEPT ![e] = Throw(e, "provider_failed")]
  /\ dispatch' = NoDispatch
  /\ UNCHANGED <<discarded, pendingTransactions, proposing, proposals, wallets, transfers,
                 transactions>>
  /\ UNCHANGED <<escrowVars, calcVars, auxVars>>

ExecCreateWallet(e) ==
  /\ exec[e].pc = "wallet"
  /\ \/ /\ wallets' = wallets + 1
        /\ exec' = [exec EXCEPT ![e].pc = "hold_send", ![e].walletId = wallets + 1]
     \/ /\ exec' = [exec EXCEPT ![e] = Throw(e, "wallet_failed")]
        /\ UNCHANGED wallets
  /\ dispatch' = NoDispatch
  /\ UNCHANGED <<discarded, pendingTransactions, proposing, proposals, transfers, transactions>>
  /\ UNCHANGED <<escrowVars, calcVars, auxVars>>

ExecHoldSend(e) ==
  /\ exec[e].pc = "hold_send"
  /\ \/ /\ transfers' = Append(transfers,
                [from |-> WalletAddress(exec[e].phone),
                 to |-> EphemeralAddress(exec[e].walletId),
                 amount |-> exec[e].data.amount, kind |-> "hold"])
        /\ exec' = [exec EXCEPT ![e].pc = "create_hold", ![e].tx = Len(transfers) + 1]
     \/ /\ exec' = [exec EXCEPT ![e] = Throw(e, "transaction_failed")]
        /\ UNCHANGED transfers
  /\ dispatch' = NoDispatch
  /\ UNCHANGED <<discarded, pendingTransactions, proposing, proposals, wallets, transactions>>
  /\ UNCHANGED <<escrowVars, calcVars, auxVars>>

ExecCreateHold(e) ==
  /\ exec[e].pc = "create_hold"
  /\ CreateHold(HoldArgs(exec[e].phone, exec[e].data.recipientPhone,
                         exec[e].data.amount, exec[e].walletId, exec[e].tx))
  /\ exec' = [exec EXCEPT ![e] =
       IF holdResult' = "created"
       THEN [exec[e] EXCEPT !.pc = "link", !.claim = Len(claims')]
       ELSE Throw(e, holdResult')]
  /\ dispatch' = NoDispatch
  /\ UNCHANGED <<discarded, pendingTransactions, proposing, proposals, wallets, transfers,
                 transactions>>

ExecSendLink(e) ==
  /\ exec[e].pc = "link"
  /\ exec' = [exec EXCEPT ![e].pc = "record", ![e].linkSent = TRUE]
  /\ dispatch' = NoDispatch
  /\ UNCHANGED <<discarded, pendingTransactions, proposing, proposals, wallets, transfers,
                 transactions>>
  /\ UNCHANGED <<escrowVars, calcVars, auxVars>>

(* The direct send; the entry of a small-amount warning carries no amount  *)
(* and no recipient, and sendTransaction throws on it.                     *)
ExecSend(e) ==
  /\ exec[e].pc = "send"
  /\ \/ /\ exec[e].data.type = "transaction"
        /\ transfers' = Append(transfers,
                [from |-> WalletAddress(exec[e].phone), to |-> exec[e].data.to,
                 amount |-> exec[e].data.amount, kind |-> "direct"])
        /\ exec' = [exec EXCEPT ![e].pc = "record", ![e].tx = Len(transfers) + 1]
     \/ /\ exec' = [exec EXCEPT ![e] = Throw(e, "transaction_failed")]
        /\ UNCHANGED transfers
  /\ dispatch' = NoDispatch
  /\ UNCHANGED <<discarded, pendingTransactions, proposing, proposals, wallets, transactions>>
  /\ UNCHANGED <<escrowVars, calcVars, auxVars>>

ExecRecord(e) ==
  /\ exec[e].pc = "record"
  /\ \/ /\ transactions' = CreateTransaction(
                [user_phone |-> exec[e].phone, tx_hash |-> exec[e].tx,
                 status |-> "pending"])
        /\ exec' = [exec EXCEPT ![e].pc = "finish", ![e].recorded = TRUE]
     \/ /\ exec' = [exec EXCEPT ![e] = Throw(e, "store_error")]
        /\ UNCHANGED transactions
  /\ dispatch' = NoDispatch
  /\ UNCHANGED <<discarded, pendingTransactions, proposing, proposals, wallets, transfers>>
  /\ UNCHANGED <<escrowVars, calcVars, auxVars>>

ExecFinish(e) ==
  /\ exec[e].pc = "finish"
  /\ pendingTransactions' = DeletePending(exec[e].phone)
  /\ discarded' = Discard(exec[e].phone, "executor")
  /\ exec' = [exec EXCEPT ![e].pc = "done"]
  /\ dispatch' = NoDispatch
  /\ UNCHANGED <<proposing, proposals, wallets, transfers, transactions>>
  /\ UNCHANGED <<escrowVars, calcVars, auxVars>>

ExecCatch(e) ==
  /\ exec[e].pc = "catch"
  /\ pendingTransactions' = DeletePending(exec[e].phone)
  /\ discarded' = Discard(exec[e].phone, "executor")
  /\ exec' = [exec EXCEPT ![e].pc = "failed"]
  /\ dispatch' = NoDispatch
  /\ UNCHANGED <<proposing, proposals, wallets, transfers, transactions>>
  /\ UNCHANGED <<escrowVars, calcVars, auxVars>>

ExecStep(e) ==
  \/ ExecProvider(e)
  \/ ExecCreateWallet(e)
  \/ ExecHoldSend(e)
  \/ ExecCreateHold(e)
  \/ ExecSendLink(e)
  \/ ExecSend(e)
  \/ ExecRecord(e)
  \/ ExecFinish(e)
  \/ ExecCatch(e)

(* An inbound message; a send command among at most n in progress.         *)
MessageStep(n) ==
  \E phone \in Requesters, text \in Texts, c \in SendCommands, q \in 1..n :
    HandleMessage(phone, text, c.recipientPhone, c.amount, q)

(* Time passing between two inbound messages.                              *)
ChatTick ==
  /\ now < MaxChatTime
  /\ now' = now + 1
  /\ dispatch' = NoDispatch
  /\ UNCHANGED <<build, claims, holdResult, holdReturn, claimer, sweep, broadcasts>>
  /\ UNCHANGED <<discarded, pendingTransactions, proposing, proposals, exec, wallets, transfers,
                 transactions>>
  /\ UNCHANGED <<calcVars, auxVars>>

HoldStep(max) ==
  /\ Len(claims) < max
  /\ \E r \in RecipientPhones, a \in Amounts \cup {0} :
       CreateHold(HoldArgs(SenderPhone, r, a, Len(claims) + 1, <<"hold", Len(claims) + 1>>))
  /\ UNCHANGED chatVars

ClaimStep(p) ==
  \/ \E t \in PresentedTokens, ph \in ClaimerPhones : ClaimStart(p, t, ph)
  \/ ClaimEstimate(p)
  \/ ClaimBroadcast(p)
  \/ ClaimWrite(p)

SweepStep(s) ==
  \/ SweepStart(s)
  \/ SweepEstimate(s)
  \/ SweepBroadcast(s)
  \/ SweepWrite(s)
  \/ SweepCatch(s)

(* One claim caller and one timer run of the sweep.                        *)
Next ==
  \/ Tick
  \/ HoldStep(MaxClaims)
  \/ \E p \in 1..NumClaimers : ClaimStep(p)
  \/ \E s \in 1..NumSweeps : SweepStep(s)

Spec == Init /\ [][Next]_vars

(* The poller's timer keeps firing and every started step of a sweep run   *)
(* completes.                                                              *)
SpecFair == Spec /\ \A s \in 1..NumSweeps : WF_vars(SweepStep(s))

(* Concurrent claim callers (two CLAIM messages handled at once).          *)
NextClaimers ==
  \/ Tick
  \/ HoldStep(MaxClaims)
  \/ \E p \in 1..RaceClaimers : ClaimStep(p)

SpecClaimers == Init /\ [][NextClaimers]_vars

(* Requesters proposing, confirming and cancelling sends, and the          *)
(* executions of the confirmed ones.                                       *)
NextChat ==
  \/ ChatTick
  \/ MessageStep(NumProposers)
  \/ \E q \in 1..NumProposers : HandleSendTransaction(q)
  \/ \E e \in Executors : ExecStep(e)

SpecChat == Init /\ [][NextChat]_vars

(* Send commands overlapping: a second one is routed while the first is    *)
(* still inside handleSendTransaction.                                     *)
NextReplace ==
  \/ MessageStep(RaceProposers)
  \/ \E q \in 1..RaceProposers : HandleSendTransaction(q)
  \/ \E e \in Executors : ExecStep(e)

SpecReplace == Init /\ [][NextReplace]_vars

(* --------------- the `transactions` collection and the poller ---------- *)
(* Transactions the bot broadcast, and the ones that pay into a watched    *)
(* wallet.                                                                 *)
BroadcastByBot == {"to_user", "to_outside"}
Incoming == {"to_user", "from_outside"}

(* A transaction is mined.  A transfer into a user's wallet, an externally *)
(* owned account, cannot revert; a send to an address outside can.         *)
Mine(h) ==
  /\ receipts[h] = "none"
  /\ \/ receipts' = [receipts EXCEPT ![h] = "success"]
     \/ /\ h \notin Incoming
        /\ receipts' = [receipts EXCEPT ![h] = "failed"]
  /\ UNCHANGED <<userStates, reconciler, scanner, logCall, logs, retry, wa>>
  /\ UNCHANGED <<escrowVars, calcVars, chatVars>>

(* The record the executor writes after its broadcast.                     *)
ExecutorRecord(h) ==
  /\ h \in BroadcastByBot
  /\ Len(transactions) < MaxRecords
  /\ \A i \in 1..Len(transactions) :
       ~(transactions[i].tx_hash = h /\ transactions[i].user_phone = SenderPhone)
  /\ transactions' = CreateTransaction(
         [user_phone |-> SenderPhone, tx_hash |-> h, status |-> "pending"])
  /\ UNCHANGED <<pendingTransactions, proposing, proposals, dispatch, exec, wallets,
                 transfers, discarded>>
  /\ UNCHANGED <<escrowVars, calcVars, auxVars>>

(* transactions.findTransactionByHash(txHash): a record, or 0 for none.    *)
FindTransactionByHash(h) ==
  IF \E i \in 1..Len(transactions) : transactions[i].tx_hash = h
  THEN CHOOSE i \in 1..Len(transactions) :
         /\ transactions[i].tx_hash = h
         /\ \A j \in 1..(i - 1) : transactions[j].tx_hash # h
  ELSE 0

(* processIncomingTransaction up to its insert: a transaction found in a   *)
(* block is skipped when the collection already has its hash.              *)
ScanFind(h) ==
  /\ scanner.pc = "idle"
  /\ h \in Incoming
  /\ receipts[h] # "none"
  /\ scanner' = IF FindTransactionByHash(h) # 0 THEN [pc |-> "idle", hash |-> h]
                ELSE [pc |-> "insert", hash |-> h]
  /\ scanner' # scanner
  /\ UNCHANGED <<userStates, receipts, reconciler, logCall, logs, retry, wa>>
  /\ UNCHANGED <<escrowVars, calcVars, chatVars>>

ScanInsert ==
  /\ scanner.pc = "insert"
  /\ scanner' = [scanner EXCEPT !.pc = "idle"]
  /\ \/ /\ Len(transactions) < MaxRecords
        /\ transactions' = CreateTransaction(
              [user_phone |-> WatchedUser, tx_hash |-> scanner.hash, status |-> "success"])
     \/ UNCHANGED transactions
  /\ UNCHANGED <<pendingTransactions, proposing, proposals, dispatch, exec, wallets,
                 transfers, discarded>>
  /\ UNCHANGED <<userStates, receipts, reconciler, logCall, logs, retry, wa>>
  /\ UNCHANGED <<escrowVars, calcVars>>

RECURSIVE PendingHashes(_)
(* transactions.findPendingTransactions(): the hashes of the pending       *)
(* records among the first n, newest first.                                *)
PendingHashes(n) ==
  IF n = 0 THEN <<>>
  ELSE IF transactions[n].status = "pending"
       THEN <<transactions[n].tx_hash>> \o PendingHashes(n - 1)
       ELSE PendingHashes(n - 1)

FindPendingTransactions == PendingHashes(Len(transactions))

(* .limit(limit) with the 50 that confirmPendingTransactions passes.       *)
PendingReadLimit == 50
Limit(s, limit) == SubSeq(s, 1, Min(limit, Len(s)))

(* Variant of GetTransactionStatus that reports a missing receipt as a     *)
(* failure.                                                                *)
GetTransactionStatus_MissingIsFailed(h) ==
  IF receipts[h] = "none" THEN "failed" ELSE receipts[h]

(* nebula.getTransactionStatus(txHash)                                     *)
GetTransactionStatus(h) ==
  IF receipts[h] = "none" THEN "pending" ELSE receipts[h]

(* The reconciler moves on to the next record of its list.                 *)
NextTransaction(r) ==
  LET rest == Tail(reconciler[r].pending)
  IN [pc |-> IF rest = <<>> THEN "idle" ELSE "status", pending |-> rest,
      status |-> "none"]

(* confirmPendingTransactions reads the pending records.                   *)
ReconcileStart(r) ==
  /\ reconciler[r].pc = "idle"
  /\ FindPendingTransactions # <<>>
  /\ reconciler' = [reconciler EXCEPT ![r] =
        [pc |-> "status", pending |-> Limit(FindPendingTransactions, PendingReadLimit),
         status |-> "none"]]
  /\ UNCHANGED <<userStates, receipts, scanner, logCall, logs, retry, wa>>
  /\ UNCHANGED <<escrowVars, calcVars, chatVars>>

(* It asks the chain for the status of the record at hand; the call may    *)
(* throw, and a status of pending leaves the record alone.                 *)
ReconcileStatus(r) ==
  /\ reconciler[r].pc = "status"
  /\ LET status == GetTransactionStatus(Head(reconciler[r].pending))
     IN \/ reconciler' = [reconciler EXCEPT ![r] =
               IF status # "pending"
               THEN [reconciler[r] EXCEPT !.pc = "update", !.status = status]
               ELSE NextTransaction(r)]
        \/ reconciler' = [reconciler EXCEPT ![r] = NextTransaction(r)]
  /\ UNCHANGED <<userStates, receipts, scanner, logCall, logs, retry, wa>>
  /\ UNCHANGED <<escrowVars, calcVars, chatVars>>

(* Variant of ReconcileUpdate that writes the status to the claims too.    *)
ReconcileUpdate_WritesClaims(r) ==
  /\ reconciler[r].pc = "update"
  /\ reconciler' = [reconciler EXCEPT ![r] = NextTransaction(r)]
  /\ \/ \E i \in 1..Len(transactions) :
          /\ transactions[i].tx_hash = Head(reconciler[r].pending)
          /\ transactions' = [transactions EXCEPT ![i].status = reconciler[r].status]
     \/ UNCHANGED transactions
  /\ UNCHANGED <<pendingTransactions, proposing, proposals, dispatch, exec, wallets,
                 transfers, discarded>>
  /\ UNCHANGED <<userStates, receipts, scanner, logCall, logs, retry, wa>>
  /\ claims' = [c \in 1..Len(claims) |->
                  [claims[c] EXCEPT !.status = reconciler[r].status]]
  /\ UNCHANGED <<now, build, holdResult, holdReturn, claimer, sweep, broadcasts>>
  /\ UNCHANGED calcVars

(* transactions.updateTransactionStatus(txHash, status): updateOne sets    *)
(* the status of one record with that hash; the call may throw.            *)
ReconcileUpdate(r) ==
  /\ reconciler[r].pc = "update"
  /\ reconciler' = [reconciler EXCEPT ![r] = NextTransaction(r)]
  /\ \/ \E i \in 1..Len(transactions) :
          /\ transactions[i].tx_hash = Head(reconciler[r].pending)
          /\ transactions' = [transactions EXCEPT ![i].status = reconciler[r].status]
     \/ UNCHANGED transactions
  /\ UNCHANGED <<pendingTransactions, proposing, proposals, dispatch, exec, wallets,
                 transfers, discarded>>
  /\ UNCHANGED <<userStates, receipts, scanner, logCall, logs, retry, wa>>
  /\ UNCHANGED <<escrowVars, calcVars>>

ReconcileStep(r) ==
  \/ ReconcileStart(r)
  \/ ReconcileStatus(r)
  \/ ReconcileUpdate(r)

(* Timer runs of the poller overlapping, with the executor writing its     *)
(* records and the chain mining.                                           *)
NextLedger ==
  \/ \E h \in Hashes : Mine(h)
  \/ \E h \in Hashes : ExecutorRecord(h)
  \/ \E h \in Hashes : ScanFind(h)
  \/ ScanInsert
  \/ \E r \in Reconcilers : ReconcileStep(r)

SpecLedger == Init /\ [][NextLedger]_vars

(* Many sends, most of them never mined: the executor's pending records    *)
(* pile up while the reconciler runs.  Only the transaction of the oldest  *)
(* record is mined here; the others were dropped by the network.           *)
MinedSends == {1}

BacklogRecord ==
  /\ Len(transactions) < MaxBacklog
  /\ transactions' = CreateTransaction(
         [user_phone |-> SenderPhone, tx_hash |-> BacklogHash(Len(transactions) + 1),
          status |-> "pending"])
  /\ UNCHANGED <<pendingTransactions, proposing, proposals, dispatch, exec, wallets,
                 transfers, discarded>>
  /\ UNCHANGED <<escrowVars, calcVars, auxVars>>

NextBacklog ==
  \/ BacklogRecord
  \/ \E i \in MinedSends : Mine(BacklogHash(i))
  \/ ReconcileStart(1)
  \/ ReconcileStatus(1)
  \/ ReconcileUpdate(1)

SpecBacklog == Init /\ [][NextBacklog]_vars

(* The chain answered the status call with a receipt.                      *)
StatusAnswered(r) == ReconcileStatus(r) /\ reconciler'[r].pc = "update"

(* The store accepted the status write.                                    *)
StatusWritten(r) == ReconcileUpdate(r) /\ transactions' # transactions

(* The timer keeps firing and each step of a run is taken; the chain and   *)
(* the store do not fail forever.                                          *)
SpecBacklogFair ==
  /\ SpecBacklog
  /\ WF_vars(ReconcileStart(1))
  /\ WF_vars(ReconcileStatus(1))
  /\ WF_vars(ReconcileUpdate(1))
  /\ SF_vars(StatusAnswered(1))
  /\ SF_vars(StatusWritten(1))

(***************************************************************************)
(* What the claims service writes to the log (src/unnamed/part_002).       *)
(* A text is a sequence of characters; a fixed message is a text of one    *)
(* element.  A logged value is <<"text", t>> or <<"sha256", t>>, the       *)
(* digest of t, which does not expose t.  An entry is the level and the    *)
(* values in the order they are written; the logger (part_013) writes      *)
(* them as they are, with no redaction.                                    *)
(***************************************************************************)
NoText == <<>>

TokenText(n) == [i \in 1..TokenChars |-> IF i = n THEN "1" ELSE "0"]

TokenTexts == {TokenText(n) : n \in 1..MaxTokenTexts}

ShortText == <<"a", "b", "c">>

PhoneTexts == {<<"9", "1">>, <<"9", "2">>}

AddressText == [i \in 1..AddressChars |-> IF i = 1 THEN "0" ELSE IF i = 2 THEN "x" ELSE "f"]

Substring(s, from, to) == SubSeq(s, from + 1, Min(to, Len(s)))

Text(t) == <<"text", t>>

Lit(m) == <<"text", <<m>>>>

Sha256(t) == <<"sha256", t>>

LogEntry(level, parts) == [level |-> level, parts |-> parts]

IsInfix(t, s) ==
  \E i \in 0..(Len(s) - Len(t)) : SubSeq(s, i + 1, i + Len(t)) = t

Contains(value, t) == value[1] = "text" /\ IsInfix(t, value[2])

HoldArgTexts ==
  [senderPhone : {NoText} \cup PhoneTexts,
   senderAddress : {AddressText},
   recipientPhone : {NoText} \cup PhoneTexts,
   amountAvax : {<<"5">>},
   ephemeralWalletId : {<<"w", "1">>},
   ephemeralWalletAddress : {NoText, AddressText}]

HoldArgsMissing(a) ==
  \/ a.senderPhone = NoText
  \/ a.senderAddress = NoText
  \/ a.recipientPhone = NoText
  \/ a.amountAvax = NoText
  \/ a.ephemeralWalletId = NoText
  \/ a.ephemeralWalletAddress = NoText

(* The error createHold throws: the missing-parameter error, or the        *)
(* store's, which may name the unique key it rejected.                     *)
CreateHoldError(a, token, stored) ==
  IF HoldArgsMissing(a)
  THEN <<Lit("NoText required parameters for creating escrow hold")>>
  ELSE IF stored THEN <<>>
  ELSE <<Lit("duplicate key: token_hash"), Sha256(token)>>

CreateHoldLogs(a, token, stored) ==
  (IF HoldArgsMissing(a)
   THEN <<LogEntry("error",
            <<Lit("NoText required parameters for createHold:"),
              Text(a.senderPhone), Text(a.senderAddress),
              Text(a.recipientPhone), Text(a.amountAvax),
              Text(a.ephemeralWalletId), Text(a.ephemeralWalletAddress)>>)>>
   ELSE <<LogEntry("info",
            <<Lit("Creating escrow hold:"), Text(a.senderPhone),
              Text(a.recipientPhone), Text(a.amountAvax)>>)>>
        \o (IF stored
            THEN <<LogEntry("info",
                     <<Lit("Escrow hold created: token="),
                       Text(Substring(token, 0, PrefixChars)),
                       Lit("expiresAt")>>)>>
            ELSE <<>>))
  \o (IF CreateHoldError(a, token, stored) # <<>>
      THEN <<LogEntry("error", <<Lit("Failed to create escrow hold:")>>
                                 \o CreateHoldError(a, token, stored))>>
      ELSE <<>>)

ClaimArgTexts ==
  [tokenPlain : {NoText, ShortText} \cup TokenTexts,
   claimerPhone : {NoText} \cup PhoneTexts,
   recipientWalletAddress : {NoText, AddressText}]

ClaimArgsMissing(a) ==
  \/ a.tokenPlain = NoText
  \/ a.claimerPhone = NoText
  \/ a.recipientWalletAddress = NoText

(* The places where validateAndClaim leaves, in the order of its code.     *)
ClaimExits ==
  <<"no_record", "not_pending", "phone_mismatch", "expired", "no_provider",
    "no_gas", "insufficient", "tx_failed", "claimed">>

Progress(exit) == CHOOSE k \in 1..Len(ClaimExits) : ClaimExits[k] = exit

(* The record validateAndClaim found, as far as it is written to the log.  *)
RecordTexts ==
  [id : {<<"c", "1">>},
   status : {<<"pending">>, <<"claimed">>, <<"refunded">>, <<"failed">>},
   recipient_phone : PhoneTexts,
   ephemeral_wallet_id : {<<"w", "1">>},
   ephemeral_wallet_address : {AddressText},
   amount_avax : {<<"5">>}]

(* The exits a call with these arguments and this record can take.         *)
ExitsOf(a, rec) ==
  IF rec.status # <<"pending">> THEN {"no_record", "not_pending"}
  ELSE IF rec.recipient_phone # a.claimerPhone
       THEN {"no_record", "phone_mismatch"}
       ELSE {ClaimExits[k] : k \in 1..Len(ClaimExits)}
            \ {"not_pending", "phone_mismatch"}

ValidateAndClaimError(a, rec, exit) ==
  IF ClaimArgsMissing(a)
  THEN <<Lit("NoText required parameters for claim. Please check the claim link and try again.")>>
  ELSE CASE exit = "no_record" ->
              <<Lit("Invalid or expired claim link. Please check the link and try again.")>>
         [] exit = "not_pending" ->
              <<Lit("This claim link is no longer active (status:"), Text(rec.status)>>
         [] exit = "phone_mismatch" ->
              <<Lit("This claim link is not intended for this phone number.")>>
         [] exit = "expired" ->
              <<Lit("This claim link has expired.")>>
         [] exit = "no_provider" ->
              <<Lit("Unable to access the escrow wallet.")>>
         [] exit = "no_gas" ->
              <<Lit("Unable to estimate transaction fees.")>>
         [] exit = "insufficient" ->
              <<Lit("Insufficient funds to cover network fees."), Text(rec.amount_avax)>>
         [] exit = "tx_failed" ->
              <<Lit("Transaction failed.")>>
         [] OTHER -> <<>>

When(cond, entry) == IF cond THEN <<entry>> ELSE <<>>

ValidateAndClaimLogs(a, rec, exit) ==
  (IF ClaimArgsMissing(a)
   THEN <<LogEntry("error",
            <<Lit("NoText required parameters for claim:"),
              Text(a.tokenPlain), Text(a.claimerPhone),
              Text(a.recipientWalletAddress)>>)>>
   ELSE <<LogEntry("info",
            <<Lit("Validating claim: token="),
              Text(Substring(a.tokenPlain, 0, PrefixChars)),
              Text(a.claimerPhone),
              Text(Substring(a.recipientWalletAddress, 0, AddressPrefixChars))>>)>>
        \o When(exit = "no_record",
             LogEntry("warn", <<Lit("Claim attempt with invalid token hash:"),
                                Sha256(a.tokenPlain)>>))
        \o When(Progress(exit) > 1,
             LogEntry("info", <<Lit("Found claim record:"), Text(rec.id),
                                Text(rec.status), Text(rec.recipient_phone)>>))
        \o When(exit = "not_pending",
             LogEntry("warn", <<Lit("Claim attempt on non-pending record:"),
                                Text(rec.id), Text(rec.status)>>))
        \o When(exit = "phone_mismatch",
             LogEntry("warn", <<Lit("Phone number mismatch:"),
                                Text(rec.recipient_phone), Text(a.claimerPhone)>>))
        \o When(exit = "expired",
             LogEntry("warn", <<Lit("Claim attempt on expired record:"),
                                Text(rec.id), Lit("expires_at")>>))
        \o When(Progress(exit) > 4,
             LogEntry("info", <<Lit("Estimating gas for claim:"),
                                Text(rec.ephemeral_wallet_address),
                                Text(a.recipientWalletAddress),
                                Text(rec.amount_avax)>>))
        \o When(exit = "no_provider",
             LogEntry("error", <<Lit("Failed to get Privy wallet provider for ephemeral wallet:"),
                                 Text(rec.ephemeral_wallet_id)>>))
        \o When(exit = "no_gas",
             LogEntry("error", <<Lit("Gas estimation failed for claim:"),
                                 Text(rec.id)>>))
        \o When(Progress(exit) > 6,
             LogEntry("info", <<Lit("Gas estimation:"), Text(rec.amount_avax)>>))
        \o When(exit = "insufficient",
             LogEntry("warn", <<Lit("Insufficient funds for gas:"),
                                Text(rec.amount_avax)>>))
        \o When(Progress(exit) > 7,
             LogEntry("info", <<Lit("Proceeding with claim:")>>))
        \o When(exit = "tx_failed",
             LogEntry("error", <<Lit("Transaction failed for claim:"),
                                 Text(rec.id)>>))
        \o When(exit = "claimed",
             LogEntry("info", <<Lit("Claim transaction successful:"),
                                Lit("tx.hash")>>)))
  \o When(ValidateAndClaimError(a, rec, exit) # <<>>,
       LogEntry("error",
         <<Lit("Claim validation failed:"),
           Text(Substring(a.tokenPlain, 0, PrefixChars)),
           Text(a.claimerPhone)>>
         \o ValidateAndClaimError(a, rec, exit)
         \o <<Lit("error.stack")>>))

RefundExits == {"insufficient", "refunded", "threw"}

(* refundExpired catches what a record's refund throws and goes on.        *)
RefundExpiredLogs(rec, exit) ==
  When(exit = "insufficient",
    LogEntry("warn", <<Lit("Refund failed: insufficient funds for gas."),
                       Text(rec.amount_avax)>>))
  \o When(exit = "threw",
       LogEntry("error", <<Lit("Refund failed for claim"), Text(rec.id),
                           Lit("e")>>))

LogCall(fn, missing, error) == [fn |-> fn, missing |-> missing, error |-> error]

LogCreateHold ==
  \E a \in HoldArgTexts, token \in TokenTexts, stored \in BOOLEAN :
    /\ logCall' = LogCall("createHold", HoldArgsMissing(a),
                          CreateHoldError(a, token, stored))
    /\ logs' = CreateHoldLogs(a, token, stored)
    /\ UNCHANGED <<retry, wa>>
    /\ UNCHANGED <<escrowVars, calcVars, chatVars,
                   userStates, receipts, reconciler, scanner>>

LogValidateAndClaim ==
  \E a \in ClaimArgTexts, rec \in RecordTexts :
    \E exit \in ExitsOf(a, rec) :
      /\ logCall' = LogCall("validateAndClaim", ClaimArgsMissing(a),
                            ValidateAndClaimError(a, rec, exit))
      /\ logs' = ValidateAndClaimLogs(a, rec, exit)
      /\ UNCHANGED <<retry, wa>>
      /\ UNCHANGED <<escrowVars, calcVars, chatVars,
                     userStates, receipts, reconciler, scanner>>

LogRefundExpired ==
  \E rec \in RecordTexts, exit \in RefundExits :
    /\ rec.status = <<"pending">>
    /\ logCall' = LogCall("refundExpired", FALSE, <<>>)
    /\ logs' = RefundExpiredLogs(rec, exit)
    /\ UNCHANGED <<retry, wa>>
    /\ UNCHANGED <<escrowVars, calcVars, chatVars,
                   userStates, receipts, reconciler, scanner>>

NextLogs ==
  \/ LogCreateHold
  \/ LogValidateAndClaim
  \/ LogRefundExpired

SpecLogs == Init /\ [][NextLogs]_vars

(* ---------------- handleMessage: commands and admin commands ----------- *)
(* commandParser.parseInput(text): none of its commands or patterns        *)
(* matches a text that begins with "/status", "/reset" or "/admin".        *)
ParseInput(text) ==
  CASE text = "send" -> "SEND_AVAX"
    [] text = "help" -> "HELP"
    [] OTHER -> "UNKNOWN"

IsAdminCommand(text) == text \in AdminTexts

(* Variant of PendingOf that never finds an entry.                         *)
PendingOf_Never(phone) == FALSE

(* this.pendingTransactions.has(phone)                                     *)
PendingOf(phone) == phone \in Requesters /\ HasPending(phone)

StateOf(phone) == IF phone \in StateUsers THEN userStates[phone] ELSE NoState

(* Variant of AdminCommandRuns that looks at the text alone.               *)
AdminCommandRuns_Anyone(phone, text) == IsAdminCommand(text)

(* The switch of handleAdminCommand is reached: the text got past the      *)
(* UNKNOWN and ERROR returns of handleMessage, is an admin command, and    *)
(* the phone is in the admin list.                                         *)
AdminCommandRuns(phone, text) ==
  /\ ParseInput(text) \notin {"UNKNOWN", "ERROR"}
  /\ IsAdminCommand(text)
  /\ phone \in AdminNumbers

(* The route of a command that does not run as an admin command.           *)
CommandRoute(text) ==
  IF ParseInput(text) = "UNKNOWN" THEN "help"
  ELSE IF IsAdminCommand(text) THEN "denied"
  ELSE "parser"

(* What handleMessage and handleAdminCommand log for a command.            *)
CommandLogs(phone, text) ==
  <<LogEntry("info", <<Lit("message_received"), Text(<<phone>>)>>),
    LogEntry("info", <<Lit("Command parsed:"), Text(<<text>>),
                       Lit(ParseInput(text))>>)>>
  \o When(AdminCommandRuns(phone, text) /\ text = "/reset",
       LogEntry("info", <<Lit("Admin reset executed by"), Text(<<phone>>)>>))
  \o When(AdminCommandRuns(phone, text),
       LogEntry("info", <<Lit("Admin command executed by"), Text(<<phone>>),
                          Text(<<text>>)>>))
  \o When(~AdminCommandRuns(phone, text) /\ CommandRoute(text) = "denied",
       LogEntry("warn", <<Lit("Unauthorized admin command attempt from"),
                          Text(<<phone>>), Text(<<text>>)>>))

(* handleResetCommand: both maps are cleared.                              *)
HandleResetCommand ==
  /\ userStates' = [r \in StateUsers |-> NoState]
  /\ pendingTransactions' = [r \in Requesters |-> NoEntry]
  /\ discarded' = discarded \cup
       {[id |-> pendingTransactions[r].id, by |-> "reset"] :
          r \in {x \in Requesters : HasPending(x)}}

(* handleMessage for a requester with no pending entry and no state whose  *)
(* text is not a send.                                                     *)
HandleCommandMessage(phone, text) ==
  /\ ~PendingOf(phone)
  /\ StateOf(phone) = NoState
  /\ logCall' = LogCall("handleMessage", FALSE, <<>>)
  /\ logs' = CommandLogs(phone, text)
  /\ UNCHANGED <<retry, wa>>
  /\ IF AdminCommandRuns(phone, text)
     THEN CASE text = "/reset" ->
                 /\ HandleResetCommand
                 /\ dispatch' = Routed(text, "admin_reset")
            [] text = "/status" ->
                 /\ dispatch' = Routed(text, "admin_status")
                 /\ UNCHANGED <<userStates, pendingTransactions, discarded>>
            [] OTHER ->
                 /\ dispatch' = Routed(text, "admin_unknown")
                 /\ UNCHANGED <<userStates, pendingTransactions, discarded>>
     ELSE /\ dispatch' = Routed(text, CommandRoute(text))
          /\ UNCHANGED <<userStates, pendingTransactions, discarded>>
  /\ UNCHANGED <<proposing, proposals, exec, wallets, transfers, transactions>>
  /\ UNCHANGED <<receipts, reconciler, scanner>>
  /\ UNCHANGED <<escrowVars, calcVars>>

CommandMessage ==
  \E phone \in Phones, text \in CommandTexts : HandleCommandMessage(phone, text)

(* handleSharedContact: the sender is put in a state that awaits an        *)
(* amount, unless no phone could be read from the contact.                 *)
HandleSharedContact(phone) ==
  /\ \/ \E s \in AwaitingStates : userStates' = [userStates EXCEPT ![phone] = s]
     \/ UNCHANGED userStates
  /\ dispatch' = NoDispatch
  /\ UNCHANGED <<pendingTransactions, proposing, proposals, exec, wallets,
                 transfers, transactions, discarded>>
  /\ UNCHANGED <<receipts, reconciler, scanner, logCall, logs, retry, wa>>
  /\ UNCHANGED <<escrowVars, calcVars>>

SharedContact == \E phone \in StateUsers : HandleSharedContact(phone)

(* handleStatefulMessage for a text that is not a valid amount: "cancel"   *)
(* and a state older than five minutes delete the state, anything else     *)
(* asks for the amount again.                                              *)
HandleStatefulMessage(phone, text) ==
  /\ ~PendingOf(phone)
  /\ StateOf(phone) # NoState
  /\ \/ userStates' = [userStates EXCEPT ![phone] = NoState]
     \/ /\ text # "cancel"
        /\ UNCHANGED userStates
  /\ dispatch' = Routed(text, "stateful")
  /\ UNCHANGED <<pendingTransactions, proposing, proposals, exec, wallets,
                 transfers, transactions, discarded>>
  /\ UNCHANGED <<receipts, reconciler, scanner, logCall, logs, retry, wa>>
  /\ UNCHANGED <<escrowVars, calcVars>>

StatefulMessage ==
  \E phone \in StateUsers, text \in StatefulTexts : HandleStatefulMessage(phone, text)

(* Requesters, another user and the admin sending commands while sends     *)
(* are proposed, confirmed and cancelled; the executions that the          *)
(* confirmations start have not returned from their first call.            *)
NextAdmin ==
  \/ MessageStep(NumProposers)
  \/ \E q \in 1..NumProposers : HandleSendTransaction(q)
  \/ CommandMessage
  \/ SharedContact
  \/ StatefulMessage

SpecAdmin == Init /\ [][NextAdmin]_vars

(* Everything a requester can send, with send commands overlapping.        *)
NextGate ==
  \/ MessageStep(RaceProposers)
  \/ \E q \in 1..RaceProposers : HandleSendTransaction(q)
  \/ \E phone \in Requesters, text \in CommandTexts : HandleCommandMessage(phone, text)
  \/ \E phone \in Requesters : HandleSharedContact(phone)
  \/ \E phone \in Requesters, text \in StatefulTexts : HandleStatefulMessage(phone, text)

SpecGate == Init /\ [][NextGate]_vars

(* ------------- the other operations over a store of claims ------------- *)
(* No claim call and no sweep is in progress and the store holds a claim.  *)
Settled ==
  /\ claims # <<>>
  /\ \A p \in Claimers : claimer[p] = IdleClaimer
  /\ \A s \in Sweeps : sweep[s] = IdleSweep

(* The confirmation handler, the admin commands and the poller have not    *)
(* run yet.                                                                *)
ChatUntouched ==
  /\ pendingTransactions = [r \in Requesters |-> NoEntry]
  /\ proposing = [q \in Proposers |-> NoProposal]
  /\ proposals = 0
  /\ discarded = {}
  /\ exec = [e \in Executors |-> IdleExec]

AdminUntouched == logs = <<>>

LedgerUntouched ==
  /\ transactions = <<>>
  /\ receipts = [h \in Hashes \cup BacklogHashes |-> "none"]
  /\ reconciler = [r \in Reconcilers |-> IdleReconciler]
  /\ scanner = IdleScanner

(* A transfer of the bot into a watched wallet: the executor records it,   *)
(* the scanner finds it and the reconciler settles its record.             *)
AuditHash == "to_user"

(* Holds, claims and sweeps build the store; then, with none of them in    *)
(* progress, one of the other parts of the bot runs over it: sends are     *)
(* proposed, confirmed and cancelled, or commands and admin commands are   *)
(* handled, or the poller scans and reconciles.                            *)
NextAudit ==
  \/ /\ ChatUntouched /\ AdminUntouched /\ LedgerUntouched
     /\ dispatch = NoDispatch
     /\ \/ Tick
        \/ HoldStep(MaxClaims)
        \/ \E p \in 1..NumClaimers : ClaimStep(p)
        \/ \E s \in 1..NumSweeps : SweepStep(s)
  \/ /\ Settled /\ AdminUntouched /\ LedgerUntouched
     /\ \/ MessageStep(NumProposers)
        \/ \E q \in 1..NumProposers : HandleSendTransaction(q)
  \/ /\ Settled /\ ChatUntouched /\ LedgerUntouched
     /\ CommandMessage
  \/ /\ Settled /\ ChatUntouched /\ AdminUntouched
     /\ \/ Mine(AuditHash)
        \/ ExecutorRecord(AuditHash)
        \/ ScanFind(AuditHash)
        \/ ScanInsert
        \/ \E r \in Reconcilers : ReconcileStep(r)

SpecAudit == Init /\ [][NextAudit]_vars

(* ------------------------ errorHandler.withRetry ----------------------- *)
(* An error message is the set of the phrases of categorizeError that it   *)
(* includes.  The rules of categorizeError in their order, each with the   *)
(* phrases it looks for and whether it marks the error retryable.          *)
ErrorRules ==
  <<[phrases |-> {"wallet not found", "user not registered"}, retryable |-> FALSE],
    [phrases |-> {"insufficient funds", "insufficient balance"}, retryable |-> FALSE],
    [phrases |-> {"invalid address", "invalid recipient"}, retryable |-> FALSE],
    [phrases |-> {"transaction failed", "execution reverted"}, retryable |-> TRUE],
    [phrases |-> {"timeout", "timed out"}, retryable |-> TRUE],
    [phrases |-> {"nonce too low"}, retryable |-> TRUE],
    [phrases |-> {"replacement transaction underpriced"}, retryable |-> TRUE],
    [phrases |-> {"gas required exceeds allowance", "out of gas"}, retryable |-> FALSE],
    [phrases |-> {"network error", "connection refused"}, retryable |-> TRUE],
    [phrases |-> {"rpc error", "json rpc"}, retryable |-> TRUE],
    [phrases |-> {"invalid amount", "amount must be"}, retryable |-> FALSE],
    [phrases |-> {"invalid command", "command not recognized"}, retryable |-> FALSE],
    [phrases |-> {"privy", "authentication failed"}, retryable |-> TRUE],
    [phrases |-> {"nebula", "thirdweb"}, retryable |-> TRUE],
    [phrases |-> {"database", "mongodb"}, retryable |-> TRUE],
    [phrases |-> {"rate limit", "too many requests"}, retryable |-> TRUE]>>

(* categorizeError(error).retryable: the first rule with a phrase in the   *)
(* message decides; an error no rule matches is an internal error, which   *)
(* is retryable.                                                           *)
CategorizeError(message) ==
  LET hits == {k \in 1..Len(ErrorRules) : ErrorRules[k].phrases \cap message # {}}
  IN IF hits = {} THEN TRUE
     ELSE ErrorRules[CHOOSE k \in hits : \A j \in hits : k <= j].retryable

(* The messages of the errors an operation throws.                         *)
ErrorMessages ==
  {{}, {"insufficient funds"}, {"transaction failed"}, {"timeout"},
   {"out of gas"}, {"transaction failed", "insufficient balance"}}

(* What one attempt of an operation does: it returns or throws, and it     *)
(* may have handed a transfer to the network before.                       *)
Outcome(ok, message, broadcast) ==
  [ok |-> ok, message |-> message, broadcast |-> broadcast]

(* Any operation.                                                          *)
AnyOutcomes ==
  {Outcome(TRUE, {}, FALSE)} \cup {Outcome(FALSE, m, FALSE) : m \in ErrorMessages}

(* Variant of Delay that does not grow.                                    *)
Delay_Constant(baseDelay, attempt) == baseDelay

(* baseDelay * Math.pow(2, attempt - 1)                                    *)
Delay(baseDelay, attempt) == baseDelay * 2 ^ (attempt - 1)

Thrown(message) == <<"error", message>>

(* Variant of Rethrows that gives up on the last attempt only.             *)
Rethrows_LastOnly(retryable, attempt, maxRetries) == attempt = maxRetries

(* !errorInfo.retryable || attempt === maxRetries                          *)
Rethrows(retryable, attempt, maxRetries) ==
  ~retryable \/ attempt = maxRetries

(* withRetry is called: the loop is entered when 1 <= maxRetries, else     *)
(* lastError, still undefined, is thrown.                                  *)
RetryEntered(maxRetries, baseDelay) ==
  [IdleRetry EXCEPT
     !.pc = IF 1 <= maxRetries THEN "attempt" ELSE "done",
     !.maxRetries = maxRetries,
     !.baseDelay = baseDelay,
     !.attempt = 1,
     !.thrown = IF 1 <= maxRetries THEN <<"none">> ELSE <<"undefined">>]

(* One pass of the loop body up to its timer: the operation is awaited;    *)
(* its result is returned, or its error is rethrown when it is not         *)
(* retryable or the attempt is the last, or the timer is set.              *)
RetryAttempted(r, o) ==
  [r EXCEPT
     !.calls = @ + 1,
     !.broadcasts = @ + (IF o.broadcast THEN 1 ELSE 0),
     !.errors = IF o.ok THEN @ ELSE Append(@, o.message),
     !.result = IF o.ok THEN "returned" ELSE @,
     !.thrown = IF ~o.ok /\ Rethrows(CategorizeError(o.message), r.attempt, r.maxRetries)
                THEN Thrown(o.message) ELSE @,
     !.pc = IF o.ok \/ Rethrows(CategorizeError(o.message), r.attempt, r.maxRetries)
            THEN "done" ELSE "wait"]

(* The timer fires and the loop goes to its next attempt, or ends and      *)
(* lastError is thrown.                                                    *)
RetryWaited(r) ==
  [r EXCEPT
     !.waits = Append(@, Delay(r.baseDelay, r.attempt)),
     !.attempt = @ + 1,
     !.pc = IF r.attempt + 1 <= r.maxRetries THEN "attempt" ELSE "done",
     !.thrown = IF r.attempt + 1 <= r.maxRetries THEN @
                ELSE Thrown(r.errors[Len(r.errors)])]

WithRetry(maxRetries, baseDelay) ==
  /\ retry.pc \in {"idle", "done"}
  /\ retry' = RetryEntered(maxRetries, baseDelay)
  /\ UNCHANGED <<userStates, receipts, reconciler, scanner, logCall, logs, wa>>
  /\ UNCHANGED <<escrowVars, calcVars, chatVars>>

RetryAttempt(outcomes) ==
  /\ retry.pc = "attempt"
  /\ \E o \in outcomes : retry' = RetryAttempted(retry, o)
  /\ UNCHANGED <<userStates, receipts, reconciler, scanner, logCall, logs, wa>>
  /\ UNCHANGED <<escrowVars, calcVars, chatVars>>

RetryWait ==
  /\ retry.pc = "wait"
  /\ retry' = RetryWaited(retry)
  /\ UNCHANGED <<userStates, receipts, reconciler, scanner, logCall, logs, wa>>
  /\ UNCHANGED <<escrowVars, calcVars, chatVars>>

RetryCall ==
  \E maxRetries \in 0..MaxRetryArg, baseDelay \in BaseDelays :
    WithRetry(maxRetries, baseDelay)

NextRetry ==
  \/ RetryCall
  \/ RetryAttempt(AnyOutcomes)
  \/ RetryWait

SpecRetry == Init /\ [][NextRetry]_vars

(* The operation settles and the timer fires.                              *)
SpecRetryFair ==
  SpecRetry /\ WF_vars(RetryAttempt(AnyOutcomes)) /\ WF_vars(RetryWait)

(* ------------- executePendingTransaction around withRetry -------------- *)
(* The executor that wraps its work in withRetry(..., 2, 2000).  One pass  *)
(* of the wrapped operation for a direct send: getUserWallet or the        *)
(* balance test throws; sendTransaction throws before it reaches the       *)
(* wallet; the wallet's sendTransaction rejects, and for a timeout the     *)
(* request may have reached the network; it resolves without a hash, and   *)
(* the operation throws 'Transaction failed'; or it resolves with one.     *)
DirectOutcomes ==
  {Outcome(FALSE, {"wallet not found"}, FALSE),
   Outcome(FALSE, {"insufficient balance"}, FALSE),
   Outcome(FALSE, {"network error"}, FALSE),
   Outcome(FALSE, {"insufficient funds"}, FALSE),
   Outcome(FALSE, {"timeout"}, FALSE),
   Outcome(FALSE, {"timeout"}, TRUE),
   Outcome(FALSE, {"transaction failed"}, TRUE),
   Outcome(TRUE, {}, TRUE)}

(* A claim-link pass: the link is created and the hold transfer sent, or   *)
(* the pass throws before anything is sent.                                *)
ClaimLinkOutcomes ==
  {Outcome(FALSE, {"wallet not found"}, FALSE),
   Outcome(FALSE, {"insufficient balance"}, FALSE),
   Outcome(FALSE, {}, FALSE),
   Outcome(TRUE, {}, TRUE)}

(* An entry without amount and recipient makes sendTransaction throw       *)
(* before it reaches the wallet.                                           *)
ExecOutcomes(data) ==
  IF data.type # "transaction" THEN {Outcome(FALSE, {}, FALSE)}
  ELSE IF data.recipientPhone # "" THEN ClaimLinkOutcomes
  ELSE DirectOutcomes

ExecutorRetries == 2
ExecutorBaseDelay == 2000

(* The confirmed entry reaches the executor, which calls withRetry.        *)
ExecWithRetry(e) ==
  /\ exec[e].pc = "provider"
  /\ retry.pc \in {"idle", "done"}
  /\ retry' = RetryEntered(ExecutorRetries, ExecutorBaseDelay)
  /\ exec' = [exec EXCEPT ![e].pc = "retrying"]
  /\ dispatch' = NoDispatch
  /\ UNCHANGED <<discarded, pendingTransactions, proposing, proposals, wallets, transfers,
                 transactions>>
  /\ UNCHANGED <<userStates, receipts, reconciler, scanner, logCall, logs, wa>>
  /\ UNCHANGED <<escrowVars, calcVars>>

(* One pass of the wrapped operation.                                      *)
ExecRetryAttempt(e) ==
  /\ exec[e].pc = "retrying"
  /\ retry.pc = "attempt"
  /\ \E o \in ExecOutcomes(exec[e].data) :
       /\ retry' = RetryAttempted(retry, o)
       /\ transfers' =
            IF o.broadcast
            THEN Append(transfers,
                   [from |-> WalletAddress(exec[e].phone), to |-> exec[e].data.to,
                    amount |-> exec[e].data.amount,
                    kind |-> IF exec[e].data.recipientPhone # "" THEN "hold" ELSE "direct"])
            ELSE transfers
       /\ exec' = [exec EXCEPT ![e].tx = IF o.ok THEN Len(transfers') ELSE @]
  /\ dispatch' = NoDispatch
  /\ UNCHANGED <<discarded, pendingTransactions, proposing, proposals, wallets, transactions>>
  /\ UNCHANGED <<userStates, receipts, reconciler, scanner, logCall, logs, wa>>
  /\ UNCHANGED <<escrowVars, calcVars>>

ExecRetryWait(e) ==
  /\ exec[e].pc = "retrying"
  /\ retry.pc = "wait"
  /\ retry' = RetryWaited(retry)
  /\ dispatch' = NoDispatch
  /\ UNCHANGED <<discarded, pendingTransactions, proposing, proposals, exec, wallets,
                 transfers, transactions>>
  /\ UNCHANGED <<userStates, receipts, reconciler, scanner, logCall, logs, wa>>
  /\ UNCHANGED <<escrowVars, calcVars>>

(* withRetry returned or threw: the reply is sent and the executor ends.   *)
ExecRetryEnd(e) ==
  /\ exec[e].pc = "retrying"
  /\ retry.pc = "done"
  /\ exec' = [exec EXCEPT ![e].pc = IF retry.result = "returned" THEN "done" ELSE "failed",
                          ![e].error = IF retry.result = "returned" THEN ""
                                       ELSE "retry_failed"]
  /\ dispatch' = NoDispatch
  /\ UNCHANGED <<discarded, pendingTransactions, proposing, proposals, wallets, transfers,
                 transactions>>
  /\ UNCHANGED auxVars
  /\ UNCHANGED <<escrowVars, calcVars>>

NextExecRetry ==
  \/ MessageStep(NumProposers)
  \/ \E q \in 1..NumProposers : HandleSendTransaction(q)
  \/ \E e \in Executors : ExecWithRetry(e)
  \/ \E e \in Executors : ExecRetryAttempt(e)
  \/ \E e \in Executors : ExecRetryWait(e)
  \/ \E e \in Executors : ExecRetryEnd(e)

SpecExecRetry == Init /\ [][NextExecRetry]_vars

(* ---------------------- whatsapp.sendMessage --------------------------- *)
(* Messages to one recipient, named by the order of their sendMessage      *)
(* calls.  socket is the order in which sock.sendMessage was invoked,      *)
(* sending the direct sends not yet settled, flushing the list the open    *)
(* handler took from the queue, whose head is the queued send in progress. *)
HandToSocket(w, id) == [w EXCEPT !.socket = Append(@, id)]

(* sendMessage(to, message): queued while not connected, else handed to    *)
(* the socket in the same turn.                                            *)
SendMessage ==
  /\ wa.called < MaxMessages
  /\ LET id == wa.called + 1
         w == [wa EXCEPT !.called = id]
     IN wa' = IF ~wa.isConnected
              THEN [w EXCEPT !.messageQueue = Append(@, id)]
              ELSE [HandToSocket(w, id) EXCEPT !.sending = @ \cup {id}]
  /\ UNCHANGED <<userStates, receipts, reconciler, scanner, logCall, logs, retry>>
  /\ UNCHANGED <<escrowVars, calcVars, chatVars>>

(* The awaited send of a direct message settles: it resolves; or it fails  *)
(* with 'Connection Closed' and the message is pushed on the queue and the *)
(* connection marked closed; or it fails otherwise and the error is        *)
(* rethrown to the caller.                                                 *)
SendSettles(id) ==
  /\ id \in wa.sending
  /\ \/ wa' = [wa EXCEPT !.sending = @ \ {id}]
     \/ wa' = [wa EXCEPT !.sending = @ \ {id},
                         !.messageQueue = Append(@, id),
                         !.isConnected = FALSE]
     \/ wa' = [wa EXCEPT !.sending = @ \ {id}, !.lost = @ \cup {id}]
  /\ UNCHANGED <<userStates, receipts, reconciler, scanner, logCall, logs, retry>>
  /\ UNCHANGED <<escrowVars, calcVars, chatVars>>

(* connection.update with connection 'close'.                              *)
ConnectionClose ==
  /\ wa.isConnected
  /\ wa' = [wa EXCEPT !.isConnected = FALSE]
  /\ UNCHANGED <<userStates, receipts, reconciler, scanner, logCall, logs, retry>>
  /\ UNCHANGED <<escrowVars, calcVars, chatVars>>

(* connection.update with connection 'open': isConnected is set, the queue *)
(* is emptied into the handler's list and the first queued message is      *)
(* handed to the socket.  One open handler runs its loop at a time.        *)
ConnectionOpen ==
  /\ ~wa.isConnected
  /\ wa.flushing = <<>>
  /\ LET w == [wa EXCEPT !.isConnected = TRUE, !.messageQueue = <<>>,
                         !.flushing = wa.messageQueue]
     IN wa' = IF wa.messageQueue = <<>> THEN w
              ELSE HandToSocket(w, Head(wa.messageQueue))
  /\ UNCHANGED <<userStates, receipts, reconciler, scanner, logCall, logs, retry>>
  /\ UNCHANGED <<escrowVars, calcVars, chatVars>>

(* The queued send in progress settles, a failure being logged and the     *)
(* message dropped, and the loop hands the next queued message over.       *)
FlushNext ==
  /\ wa.flushing # <<>>
  /\ LET rest == Tail(wa.flushing)
     IN \E failed \in BOOLEAN :
          LET w == [wa EXCEPT !.flushing = rest,
                              !.lost = IF failed THEN @ \cup {Head(wa.flushing)} ELSE @]
          IN wa' = IF rest = <<>> THEN w ELSE HandToSocket(w, Head(rest))
  /\ UNCHANGED <<userStates, receipts, reconciler, scanner, logCall, logs, retry>>
  /\ UNCHANGED <<escrowVars, calcVars, chatVars>>

NextWhatsApp ==
  \/ SendMessage
  \/ \E id \in 1..MaxMessages : SendSettles(id)
  \/ ConnectionClose
  \/ ConnectionOpen
  \/ FlushNext

SpecWhatsApp == Init /\ [][NextWhatsApp]_vars

(* createHold called with every combination of present, missing and       *)
(* out-of-range parameters.                                                *)
HoldInputs ==
  LET ok == HoldArgs(SenderPhone, "r", 300, 1, <<"hold", 1>>)
  IN <<ok,
       [ok EXCEPT !.amountAvax = 2000],
       [ok EXCEPT !.amountAvax = 0],
       [ok EXCEPT !.amountAvax = -300],
       [ok EXCEPT !.senderPhone = Missing],
       [ok EXCEPT !.senderAddress = Missing],
       [ok EXCEPT !.recipientPhone = Missing],
       [ok EXCEPT !.ephemeralWalletId = Missing],
       [ok EXCEPT !.ephemeralWalletAddress = Missing]>>

HoldCall(max) ==
  /\ Len(claims) < max
  /\ \E i \in 1..Len(HoldInputs) : CreateHold(HoldInputs[i])
  /\ UNCHANGED chatVars

NextHold ==
  \/ Tick
  \/ HoldCall(SweepClaims)

SpecHold == Init /\ [][NextHold]_vars

(* Overlapping timer runs of the sweep.                                    *)
NextSweeps ==
  \/ Tick
  \/ HoldStep(SweepClaims)
  \/ \E s \in 1..RaceSweeps : SweepStep(s)

SpecSweeps == Init /\ [][NextSweeps]_vars

(* ----------------- the gas check as a pure function -------------------- *)
(* Amounts in steps of 0.0001 AVAX, gas costs in steps of 0.00001 AVAX.    *)
GridAmounts == {a \in 0..MaxGridAmount : a % 10 = 0}
GridGas == 0..MaxGridGas

(* The grid with calcResult still empty.                                  *)
InitGrid(noResult) ==
  /\ now = 0
  /\ build = "dynamic"
  /\ claims = <<>>
  /\ holdResult = "none"
  /\ holdReturn = NoReturn
  /\ claimer = [p \in Claimers |-> IdleClaimer]
  /\ sweep = [s \in Sweeps |-> IdleSweep]
  /\ broadcasts = <<>>
  /\ calcAmount \in GridAmounts
  /\ calcGas \in GridGas
  /\ calcResult = noResult
  /\ pendingTransactions = [r \in Requesters |-> NoEntry]
  /\ proposing = [q \in Proposers |-> NoProposal]
  /\ proposals = 0
  /\ dispatch = NoDispatch
  /\ exec = [e \in Executors |-> IdleExec]
  /\ wallets = 0
  /\ transfers = <<>>
  /\ transactions = <<>>
  /\ discarded = {}
  /\ userStates = [r \in StateUsers |-> NoState]
  /\ receipts = [h \in Hashes \cup BacklogHashes |-> "none"]
  /\ reconciler = [r \in Reconcilers |-> IdleReconciler]
  /\ scanner = IdleScanner
  /\ logCall = NoCall
  /\ logs = <<>>
  /\ retry = IdleRetry
  /\ wa = InitialWhatsApp

InitGas == InitGrid("none")

GasCheck ==
  /\ calcResult = "none"
  /\ calcResult' = DynamicGasReason(calcAmount, calcGas)
  /\ UNCHANGED <<calcAmount, calcGas>>
  /\ UNCHANGED <<escrowVars, chatVars, auxVars>>

NextGas == GasCheck

SpecGas == InitGas /\ [][NextGas]_vars

(* The gas checks of the two paths of one claims service, on one amount    *)
(* and one estimate.                                                       *)
NoPolicyResult == [claim |-> "none", refund |-> "none"]
policyResult == calcResult

InitPolicy == InitGrid(NoPolicyResult)

GasPolicyCheck ==
  /\ calcResult = NoPolicyResult
  /\ calcResult' = [claim |-> ClaimGasReason(build, calcAmount, calcGas),
                    refund |-> StaticGasReason(calcAmount, calcGas)]
  /\ UNCHANGED <<calcAmount, calcGas>>
  /\ UNCHANGED <<escrowVars, chatVars, auxVars>>

NextPolicy == GasPolicyCheck

SpecPolicy == InitPolicy /\ [][NextPolicy]_vars

(* ------------------------- history helpers ----------------------------- *)
BroadcastsOf(c, k) ==
  {i \in 1..Len(broadcasts) : broadcasts[i].claim = c /\ broadcasts[i].kind = k}

NewBroadcasts == (Len(broadcasts) + 1)..Len(broadcasts')

(* A step in which caller p begins a validateAndClaim call.                *)
StartedBy(p) == claimer[p].pc = "idle" /\ claimer'[p] # claimer[p]

NothingSettled == claims' = claims /\ broadcasts' = broadcasts

GasReasons == {"insufficient_for_gas", "too_small_for_gas", "too_small_after_gas"}

(* C1: a claim call and a sweep run working on the same Claim never both   *)
(* settle it: the record never carries both a claim settlement and a       *)
(* refund settlement, and not both a claim transfer and a refund transfer  *)
(* are broadcast from its custody wallet.                                  *)
C1_ClaimAndSweepExclusive ==
  \A c \in ClaimIds :
    /\ ~(claims[c].claim_tx_hash # 0 /\ claims[c].refund_tx_hash # 0)
    /\ ~(BroadcastsOf(c, "claim") # {} /\ BroadcastsOf(c, "refund") # {})

(* C2: concurrent validateAndClaim calls with the same valid token and     *)
(* the matching phone broadcast at most one settlement transfer for the    *)
(* Claim.                                                                  *)
C2_AtMostOneClaimBroadcast ==
  \A c \in ClaimIds : Cardinality(BroadcastsOf(c, "claim")) <= 1

(* C3: a Claim's status leaves pending at most once: once it is claimed,   *)
(* refunded or failed, no later write changes it.                          *)
C3_StatusMonotonic ==
  [][\A c \in ClaimIds :
       claims[c].status # "pending" => claims'[c].status = claims[c].status]_vars

(* C4: over all runs of the sweep, overlapping runs included, at most one  *)
(* refund transfer is broadcast for a Claim.                               *)
C4_AtMostOneRefundBroadcast ==
  \A c \in ClaimIds : Cardinality(BroadcastsOf(c, "refund")) <= 1

(* C5: when the settlement broadcast of validateAndClaim fails after the   *)
(* checks passed, the call ends with the Claim in status failed with an    *)
(* error note, not pending.                                                *)
C5_FailedBroadcastMarksFailed ==
  [][\A p \in Claimers :
       (claimer[p].pc = "broadcast" /\ claimer'[p].reason = "transaction_failed")
         => /\ claims'[claimer[p].rec].status = "failed"
            /\ claims'[claimer[p].rec].error # ""]_vars

(* C6: a validateAndClaim call with the right token and phone on a pending *)
(* Claim, made after expires_at, is rejected as expired, broadcasts        *)
(* nothing and writes nothing; every transfer the sweep broadcasts goes to *)
(* the sender's wallet address, which is not the recipient's.              *)
C6_ExpiredClaimRejected ==
  [][/\ \A p \in Claimers :
          (/\ StartedBy(p)
           /\ claimer'[p].rec # 0
           /\ claims[claimer'[p].rec].status = "pending"
           /\ claims[claimer'[p].rec].recipient_phone = claimer'[p].phone
           /\ claims[claimer'[p].rec].expires_at < now)
            => /\ claimer'[p].pc = "idle"
               /\ claimer'[p].reason = "expired"
               /\ NothingSettled
     /\ \A i \in NewBroadcasts :
          broadcasts'[i].kind = "refund"
            => /\ broadcasts'[i].to = WalletAddress(claims[broadcasts'[i].claim].sender_phone)
               /\ broadcasts'[i].to #
                    WalletAddress(claims[broadcasts'[i].claim].recipient_phone)]_vars

C6_Witness ==
  \E p \in Claimers : \E i \in 1..Len(broadcasts) :
    /\ claimer[p].reason = "expired"
    /\ claimer[p].rec # 0
    /\ broadcasts[i].claim = claimer[p].rec
    /\ broadcasts[i].kind = "refund"
    /\ claims[claimer[p].rec].status = "refunded"
    /\ BroadcastsOf(claimer[p].rec, "claim") = {}

(* C7: a sweep run selects exactly the Claims that are pending with        *)
(* expires_at at or before its current time, and no step of the sweep      *)
(* writes a record or broadcasts a refund for a Claim whose expires_at is  *)
(* still in the future.                                                    *)
C7_SweepOnlyExpired ==
  [][sweep' # sweep =>
       /\ \A s \in Sweeps :
            (sweep[s].pc = "idle" /\ sweep'[s].pc # "idle")
              => {sweep'[s].expired[k] : k \in 1..Len(sweep'[s].expired)} =
                   {c \in ClaimIds : claims[c].status = "pending"
                                       /\ claims[c].expires_at <= now}
       /\ \A c \in ClaimIds : claims'[c] # claims[c] => claims[c].expires_at <= now
       /\ \A i \in NewBroadcasts : claims[broadcasts'[i].claim].expires_at <= now]_vars

C7_Witness ==
  \E c, d \in ClaimIds :
    /\ claims[c].status = "refunded"
    /\ claims[d].status = "pending"
    /\ claims[d].expires_at > now
    /\ \E s \in Sweeps : sweep[s].pc = "idle"

(* C8 as stated: with the right token and a phone other than               *)
(* recipient_phone the call reports the phone mismatch whatever the state  *)
(* of the Claim.                                                           *)
C8_MismatchForEveryState ==
  [][\A p \in Claimers :
       (/\ StartedBy(p)
        /\ claimer'[p].rec # 0
        /\ claims[claimer'[p].rec].recipient_phone # claimer'[p].phone)
         => /\ claimer'[p].reason = "phone_mismatch"
            /\ claimer'[p].pc = "idle"
            /\ NothingSettled]_vars

(* C8 amended: with the right token and a phone other than recipient_phone *)
(* the call reports the phone mismatch when the Claim is pending and the   *)
(* not-active reason when it is claimed, refunded or failed; either way,   *)
(* and whatever the amount, it ends there, broadcasts nothing and writes   *)
(* nothing.                                                                *)
C8_MismatchOnPending ==
  [][\A p \in Claimers :
       (/\ StartedBy(p)
        /\ claimer'[p].rec # 0
        /\ claims[claimer'[p].rec].recipient_phone # claimer'[p].phone)
         => /\ claimer'[p].reason =
                 (IF claims[claimer'[p].rec].status = "pending"
                  THEN "phone_mismatch" ELSE "not_active")
            /\ claimer'[p].pc = "idle"
            /\ NothingSettled]_vars

C8_Witness ==
  \E p \in Claimers :
    /\ claimer[p].reason = "phone_mismatch"
    /\ claimer[p].rec # 0
    /\ claims[claimer[p].rec].recipient_phone # claimer[p].phone
    /\ claims[claimer[p].rec].status = "pending"
    /\ claims[claimer[p].rec].amount_avax \in Amounts

(* C9: validateAndClaim reports the reason of the first failing check in   *)
(* the order token, status, phone, expiry, gas; a call proceeds to the     *)
(* broadcast only when the gas check of its build accepts; a failing check *)
(* ends the call with no broadcast and no write.                           *)
C9_ValidationOrder ==
  [][\A p \in Claimers :
       /\ (StartedBy(p) /\ claimer'[p].reason # "missing_parameters") =>
            LET c == claimer'[p].rec
                resolves == \E i \in ClaimIds :
                              claims[i].token_hash = HashToken(claimer'[p].token)
                expected ==
                  IF ~resolves THEN "invalid_link"
                  ELSE IF claims[c].status \in {"claimed", "refunded", "failed"}
                    THEN "not_active"
                  ELSE IF claims[c].recipient_phone # claimer'[p].phone
                    THEN "phone_mismatch"
                  ELSE IF now > claims[c].expires_at THEN "expired"
                  ELSE ""
            IN /\ claimer'[p].reason = expected
               /\ claimer'[p].pc = (IF expected = "" THEN "estimate" ELSE "idle")
               /\ NothingSettled
       /\ (claimer[p].pc = "estimate" /\ claimer'[p].pc # "estimate") =>
            LET amount == claims[claimer[p].rec].amount_avax
                g == claimer'[p].gasCost
            IN /\ NothingSettled
               /\ \/ /\ claimer'[p].pc = "idle"
                     /\ claimer'[p].reason \in
                          GasReasons \cup {"wallet_unavailable", "estimate_failed"}
                  \/ /\ claimer'[p].pc = "broadcast"
                     /\ g \in GasEstimates
                     /\ build = "static" => amount > g + ClaimMinGasBuffer
                     /\ build = "dynamic" =>
                          /\ 10 * g + GasBufferTimes10(amount) < 9 * amount
                          /\ 10 * amount - (10 * g + GasBufferTimes10(amount))
                               >= 10 * MinNetAmount
       /\ claims' # claims /\ claimer'[p] # claimer[p] => claimer[p].pc = "write"
       /\ broadcasts' # broadcasts /\ claimer'[p] # claimer[p]
            => claimer[p].pc = "broadcast"]_vars

C9_Witness ==
  /\ \E p \in Claimers :
       /\ claimer[p].reason = "not_active"
       /\ claims[claimer[p].rec].recipient_phone # claimer[p].phone
       /\ claims[claimer[p].rec].expires_at < now

IterationEnds(s) ==
  /\ sweep[s].pc \in {"estimate", "broadcast", "write", "catch"}
  /\ sweep'[s].expired # sweep[s].expired

InsufficientNote == "Insufficient funds for gas fees"

CatchWritten(s) == SweepCatch(s) /\ claims' # claims

EndsAfterBroadcast(p) == claimer[p].pc = "write" /\ claimer'[p].pc = "idle"

(* C14 as stated: a call that passed every check and whose settlement      *)
(* transfer was broadcast ends with the record claimed, carrying the       *)
(* transaction hash, gas cost, transfer amount and claim time, and returns *)
(* hash, gas cost and transfer amount.                                     *)
C14_BroadcastEndsClaimed ==
  [][\A p \in Claimers :
       EndsAfterBroadcast(p) =>
         LET c == claimer[p]
             r == claims'[c.rec]
         IN /\ r.status = "claimed"
            /\ r.claim_tx_hash = c.tx
            /\ r.gas_cost = c.gasCost
            /\ r.transfer_amount = c.transferAmount
            /\ r.claimed_at = now
            /\ claimer'[p].reason = "claimed"
            /\ claimer'[p].tx = c.tx
            /\ claimer'[p].gasCost = c.gasCost
            /\ claimer'[p].transferAmount = c.transferAmount]_vars

(* Such a call ends in one of two ways. If the store accepts               *)
(* the status write, the record is claimed and carries the hash of the     *)
(* transfer that was broadcast, its gas cost, its amount and the claim     *)
(* time, and the call returns hash, gas cost and amount. If the store      *)
(* rejects the write, the call fails and the record is left as it was.     *)
(* A call reaches that point only with a record that was pending, with the *)
(* matching phone, not past expires_at when it was read, and with its own  *)
(* transfer in the broadcast log.                                          *)
C14_ClaimedIfStoreAccepts ==
  [][\A p \in Claimers :
       /\ EndsAfterBroadcast(p) =>
            LET c == claimer[p]
                r == claims'[c.rec]
            IN \/ /\ r.status = "claimed"
                  /\ r.claim_tx_hash = c.tx
                  /\ r.gas_cost = c.gasCost
                  /\ r.transfer_amount = c.transferAmount
                  /\ r.claimed_at = now
                  /\ claimer'[p].reason = "claimed"
                  /\ claimer'[p].tx = c.tx
                  /\ claimer'[p].gasCost = c.gasCost
                  /\ claimer'[p].transferAmount = c.transferAmount
               \/ /\ claims' = claims
                  /\ claimer'[p].reason = "store_error"
       /\ (claimer[p].pc = "idle" /\ claimer'[p].pc = "estimate") =>
            /\ claims[claimer'[p].rec].status = "pending"
            /\ claims[claimer'[p].rec].token_hash = HashToken(claimer'[p].token)
            /\ claims[claimer'[p].rec].recipient_phone = claimer'[p].phone
            /\ now <= claims[claimer'[p].rec].expires_at
       /\ claimer'[p].pc = "write" =>
            /\ claimer'[p].tx \in 1..Len(broadcasts')
            /\ broadcasts'[claimer'[p].tx] =
                 [claim |-> claimer'[p].rec, kind |-> "claim",
                  to |-> WalletAddress(claimer'[p].phone),
                  amount |-> claimer'[p].transferAmount,
                  gas |-> claimer'[p].gasCost]
       /\ claimer'[p].reason = "claimed" => EndsAfterBroadcast(p) \/ claimer'[p] = claimer[p]]_vars

C14_Witness ==
  \E p \in Claimers :
    /\ claimer[p].reason = "claimed"
    /\ claims[claimer[p].rec].status = "claimed"
    /\ claims[claimer[p].rec].claim_tx_hash = claimer[p].tx
    /\ claims[claimer[p].rec].transfer_amount = claimer[p].transferAmount
    /\ claims[claimer[p].rec].claimed_at <= claims[claimer[p].rec].expires_at
    /\ broadcasts[claimer[p].tx].kind = "claim"

(* Claims whose custody wallet is the one execution e created.             *)
ClaimsOfExec(e) ==
  {c \in ClaimIds :
     claims[c].ephemeral_wallet_address = EphemeralAddress(exec[e].walletId)}

HoldPath(e) == exec[e].data.recipientPhone # ""

C16_NoHoldWithoutClaim ==
  \A e \in Executors :
    (exec[e].pc \in {"done", "failed"} /\ HoldPath(e) /\ exec[e].tx # 0)
      => ClaimsOfExec(e) # {}

(* C17: when custody-wallet creation fails, or the hold transfer fails     *)
(* after the wallet was created, the execution goes to its error handler   *)
(* and ends there: it persists no Claim and no transaction record,         *)
(* broadcasts nothing, sends no claim link, and leaves the requester       *)
(* without a pending entry.                                                *)
C17_AbortLeavesNothing ==
  [][\A e \in Executors :
       LET early == {"wallet_failed", "transaction_failed"}
       IN /\ (exec[e].pc \in {"wallet", "hold_send"} /\ exec'[e].error # "")
               => /\ exec'[e].pc = "catch"
                  /\ exec'[e].error \in early
                  /\ claims' = claims
                  /\ transactions' = transactions
                  /\ transfers' = transfers
          /\ (HoldPath(e) /\ exec[e].error \in early /\ exec'[e] # exec[e])
               => /\ exec[e].pc = "catch"
                  /\ exec'[e].pc = "failed"
                  /\ pendingTransactions'[exec[e].phone] = NoEntry
                  /\ claims' = claims
                  /\ transactions' = transactions
                  /\ transfers' = transfers
          /\ (HoldPath(e) /\ exec'[e].error \in early)
               => /\ exec'[e].pc \in {"catch", "failed"}
                  /\ exec'[e].tx = 0
                  /\ exec'[e].claim = 0
                  /\ ~exec'[e].linkSent
                  /\ ~exec'[e].recorded
                  /\ \A c \in 1..Len(claims') :
                       exec'[e].walletId # 0 =>
                         claims'[c].ephemeral_wallet_address
                           # EphemeralAddress(exec'[e].walletId)]_vars

C17_Witness ==
  \E e, f \in Executors :
    /\ HoldPath(e) /\ exec[e].pc = "failed" /\ exec[e].error = "wallet_failed"
    /\ HoldPath(f) /\ exec[f].pc = "failed" /\ exec[f].error = "transaction_failed"
    /\ exec[f].walletId # 0
    /\ claims = <<>>
    /\ transactions = <<>>
    /\ pendingTransactions[exec[e].phone] = NoEntry

(* C18: createHold persists a Claim only when every required parameter is *)
(* present and the amount is strictly greater than zero.                   *)
C18_HoldNeedsValidParameters ==
  \A c \in ClaimIds :
    /\ claims[c].sender_phone # Missing
    /\ claims[c].sender_wallet_address # Missing
    /\ claims[c].recipient_phone # Missing
    /\ claims[c].ephemeral_wallet_id # Missing
    /\ claims[c].ephemeral_wallet_address # Missing
    /\ claims[c].amount_avax > 0

(* Executions entered by the step.                                        *)
Started == {e \in Executors : exec[e].pc = "idle" /\ exec'[e].pc # "idle"}

(* C19: a confirm signal that finds a pending entry removes it and hands   *)
(* the stored operation to the executor; only such a signal starts an      *)
(* execution, it starts one, and no stored operation is ever executed      *)
(* twice however many confirm signals follow the proposal.                 *)
C19_ConfirmExecutesOnce ==
  [][/\ \A e \in Started :
          /\ dispatch'.route = "executor"
          /\ IsConfirmation(dispatch'.text)
          /\ HasPending(exec'[e].phone)
          /\ exec'[e].data = pendingTransactions[exec'[e].phone]
          /\ pendingTransactions'[exec'[e].phone] = NoEntry
          /\ Started = {e}
     /\ \A p \in Requesters :
          (IsConfirmation(dispatch'.text) /\ HasPending(p))
            => /\ pendingTransactions'[p] = NoEntry
               /\ \E e \in Started : exec'[e].data = pendingTransactions[p]
     /\ \A e, f \in Executors :
          (e # f /\ exec'[e].pc # "idle" /\ exec'[f].pc # "idle")
            => exec'[e].data.id # exec'[f].data.id
     /\ \A e \in Executors : \A p \in Requesters :
          (exec'[e].pc # "idle" /\ pendingTransactions'[p] # NoEntry)
            => exec'[e].data.id # pendingTransactions'[p].id]_vars

(* A second confirm signal after one proposal found nothing to execute.    *)
C19_Witness ==
  /\ proposals = 1
  /\ dispatch = Routed("confirm", "parser")
  /\ \E e \in Executors :
       /\ exec[e].pc # "idle"
       /\ exec[e].data.id = 1
       /\ \A f \in Executors \ {e} : exec[f].pc = "idle"

(* The entry was stored at an earlier reading of the clock.  One unit of   *)
(* the clock is a day, so such an entry is older than any five minutes.    *)
Stale(p) == HasPending(p) /\ pendingTransactions[p].stored_at < now

(* C20: a confirm signal arriving for an entry older than five minutes     *)
(* discards the entry and executes nothing.                                *)
C20_StaleEntryNotExecuted ==
  [][\A p \in Requesters :
       (IsConfirmation(dispatch'.text) /\ Stale(p))
         => /\ pendingTransactions'[p] = NoEntry
            /\ exec' = exec
            /\ transfers' = transfers
            /\ claims' = claims]_vars

(* The step executes nothing: no execution is entered or advanced, no      *)
(* custody wallet or Claim is created, nothing is broadcast or recorded.   *)
NothingExecuted ==
  /\ exec' = exec
  /\ wallets' = wallets
  /\ transfers' = transfers
  /\ claims' = claims
  /\ transactions' = transactions

(* An entry put into the map by the step is a new proposal, never one that *)
(* was in the map before.                                                  *)
EntriesAreFresh ==
  \A p \in Requesters :
    (pendingTransactions'[p] # NoEntry /\ pendingTransactions'[p] # pendingTransactions[p])
      => /\ pendingTransactions'[p].id = proposals + 1
         /\ proposals' = proposals + 1
         /\ \A e \in Executors : exec'[e].data.id <= proposals

(* C21: a text that isCancellation accepts, sent by a requester with a     *)
(* pending entry, removes the entry and executes nothing, and the removed  *)
(* operation is never executed by a later confirm.                         *)
C21_CancelExecutesNothing ==
  [][/\ \A p \in Requesters :
          (IsCancellation(dispatch'.text) /\ HasPending(p))
            => /\ pendingTransactions'[p] = NoEntry
               /\ pendingTransactions[p].id \in DiscardedIds'
               /\ NothingExecuted
     /\ \A e \in Executors : exec'[e].data.id \notin DiscardedIds'
     /\ EntriesAreFresh
     /\ \A e \in Started : exec'[e].data = pendingTransactions[exec'[e].phone]]_vars

(* The same for a text that isCancellation accepts and isConfirmation      *)
(* does not.                                                               *)
C21_CancelOnlyExecutesNothing ==
  [][/\ \A p \in Requesters :
          (dispatch'.text = "cancel" /\ HasPending(p))
            => /\ pendingTransactions'[p] = NoEntry
               /\ pendingTransactions[p].id \in DiscardedIds'
               /\ dispatch'.route = "cancelled"
               /\ NothingExecuted
     /\ \A e \in Executors : exec'[e].data.id \notin DiscardedIds'
     /\ EntriesAreFresh
     /\ \A e \in Started : exec'[e].data = pendingTransactions[exec'[e].phone]]_vars

(* C22: a text that is neither a confirmation nor a cancellation, sent by  *)
(* a requester with a pending entry, leaves the entry as it was, executes  *)
(* nothing and is answered with the re-prompt; the requester still has the *)
(* entry, so a confirm or a cancel is still handled against it.            *)
C22_UnrecognizedLeavesEntry ==
  [][\A p \in Requesters :
       (dispatch'.text \in {"other", "send"} /\ HasPending(p))
         => /\ pendingTransactions' = pendingTransactions
            /\ HasPending(p)'
            /\ dispatch'.route = "reprompt"
            /\ proposing' = proposing
            /\ NothingExecuted]_vars

C22_Witness ==
  /\ dispatch = Routed("other", "reprompt")
  /\ \E p \in Requesters :
       /\ pendingTransactions[p].type = "transaction"
       /\ pendingTransactions[p].id = 1
  /\ \A e \in Executors : exec[e].pc = "idle"

(* A cancelled operation, and a confirm sent after it that found nothing.  *)
C21_Witness ==
  /\ proposals = 1
  /\ discarded = {[id |-> 1, by |-> "cancel"]}
  /\ dispatch = Routed("confirm", "parser")
  /\ \A e \in Executors : exec[e].pc = "idle"
  /\ transfers = <<>> /\ transactions = <<>> /\ claims = <<>> /\ wallets = 0

(* C23: a requester has at most one pending entry, which is the operation  *)
(* proposed last; storing a proposal over an entry discards that entry,    *)
(* and a confirm hands the executor the entry proposed last, never a       *)
(* discarded one.                                                          *)
C23_NewProposalReplaces ==
  [][/\ \A p \in Requesters :
          /\ HasPending(p)' => pendingTransactions'[p].id = proposals'
          /\ (HasPending(p) /\ HasPending(p)'
                /\ pendingTransactions'[p] # pendingTransactions[p])
               => /\ [id |-> pendingTransactions[p].id, by |-> "overwrite"] \in discarded'
                  /\ pendingTransactions'[p].id = proposals + 1
     /\ \A e \in Started : exec'[e].data.id = proposals
     /\ \A e \in Executors : exec'[e].data.id \notin DiscardedIds'
     /\ EntriesAreFresh]_vars

(* The first proposal was overwritten by the second, and the confirm that  *)
(* followed executes the second.                                           *)
C23_Witness ==
  /\ proposals = 2
  /\ discarded = {[id |-> 1, by |-> "overwrite"]}
  /\ dispatch = Routed("confirm", "executor")
  /\ \E e \in Executors :
       /\ exec[e].pc = "provider"
       /\ exec[e].data.id = 2
       /\ \A f \in Executors \ {e} : exec[f].pc = "idle"

IsWarning(entry) == entry.type = "small_amount_confirmation"

(* C24: when the execution entered by a confirm on a small-amount warning  *)
(* ends, it has broadcast nothing and created no hold, and the requester   *)
(* has a pending claim-link send that waits for a second confirm.          *)
C24_WarningConfirmReproposes ==
  [][\A e \in Executors :
       (IsWarning(exec[e].data) /\ exec[e].pc \notin {"done", "failed"}
          /\ exec'[e].pc \in {"done", "failed"})
         => /\ exec'[e].tx = 0 /\ exec'[e].claim = 0 /\ exec'[e].walletId = 0
            /\ pendingTransactions'[exec[e].phone].type = "transaction"
            /\ pendingTransactions'[exec[e].phone].recipientPhone # ""]_vars

(* What does hold of a small-amount warning: a send below the floor to an  *)
(* unregistered phone stores the warning; the execution entered by a       *)
(* confirm on it never creates a wallet, broadcasts or records anything    *)
(* and ends in the error handler with no entry left; a cancel drops it.    *)
C24_WarningMovesNothing ==
  [][/\ \A e \in Executors :
          IsWarning(exec'[e].data)
            => /\ exec'[e].tx = 0 /\ exec'[e].claim = 0 /\ exec'[e].walletId = 0
               /\ ~exec'[e].recorded /\ ~exec'[e].linkSent
               /\ exec'[e].pc # "done"
               /\ (exec[e] # exec'[e] /\ exec[e].pc # "idle")
                    => wallets' = wallets /\ transfers' = transfers /\ claims' = claims
                       /\ transactions' = transactions
               /\ (exec[e].pc = "catch" /\ exec'[e].pc = "failed")
                    => pendingTransactions'[exec[e].phone] = NoEntry
     /\ \A q \in Proposers :
          (proposing[q] # NoProposal /\ proposing'[q] = NoProposal
             /\ pendingTransactions' # pendingTransactions)
            => (IsWarning(pendingTransactions'[proposing[q].phone])
                  <=> (proposing[q].recipientPhone # ""
                         /\ proposing[q].amount < SmallAmountFloor))
     /\ \A p \in Requesters :
          (dispatch'.text = "cancel" /\ IsWarning(pendingTransactions[p]))
            => pendingTransactions'[p] = NoEntry /\ NothingExecuted]_vars

C24_Witness ==
  \E e \in Executors :
    /\ IsWarning(exec[e].data)
    /\ exec[e].pc = "failed"
    /\ exec[e].error = "transaction_failed"
    /\ pendingTransactions[exec[e].phone] = NoEntry
    /\ proposals = 1

ClaimFields ==
  {"sender_phone", "sender_wallet_address", "recipient_phone", "token_hash",
   "ephemeral_wallet_id", "ephemeral_wallet_address", "amount_avax", "status",
   "hold_tx_hash", "expires_at", "claim_tx_hash", "refund_tx_hash", "gas_cost",
   "transfer_amount", "refund_amount", "claimed_at", "error"}

(* The fields that hold a structured value; the others hold a phone, a     *)
(* status word, a message, an amount or a time.                            *)
StructuredFields ==
  {"sender_wallet_address", "token_hash", "ephemeral_wallet_id",
   "ephemeral_wallet_address", "hold_tx_hash"}

(* C26: no field of a Claim record holds the plaintext token of any Claim  *)
(* or a link built from it; the record holds the digest of its own token,  *)
(* and that token is returned, with its link, by the createHold call that  *)
(* persisted the record and by no other call.                              *)
C26_TokenNeverPersisted ==
  [][/\ \A c \in 1..Len(claims') :
          /\ DOMAIN claims'[c] = ClaimFields
          /\ \A f \in StructuredFields : \A d \in 1..Len(claims') :
               /\ Token(d) # claims'[c][f]
               /\ BuildClaimLink(Token(d)) # claims'[c][f]
          /\ claims'[c].token_hash = HashToken(Token(c))
     /\ \A c \in (Len(claims) + 1)..Len(claims') :
          /\ holdReturn' = [link |-> BuildClaimLink(Token(c)), token |-> Token(c)]
          /\ \A d \in 1..Len(claims) : claims[d].token_hash # HashToken(Token(c))
     /\ (Len(claims') = Len(claims)) => holdReturn' \in {holdReturn, NoReturn}]_vars

(* A second hold was created and returned its token after the first       *)
(* record was settled.                                                     *)
C26_Witness ==
  /\ Len(claims) = 2
  /\ holdResult = "created"
  /\ holdReturn.token = Token(2)
  /\ claims[1].status # "pending"

(* The complete token t is written out in some log entry or in the error   *)
(* payload of the last call.                                               *)
Exposed(t) ==
  \/ \E i \in 1..Len(logs) : \E j \in 1..Len(logs[i].parts) :
       Contains(logs[i].parts[j], t)
  \/ \E j \in 1..Len(logCall.error) : Contains(logCall.error[j], t)

(* C27: no log entry and no error payload of createHold, validateAndClaim  *)
(* or refundExpired contains a complete plaintext claim token, on any      *)
(* path.                                                                   *)
C27_NoTokenInLogs == \A t \in TokenTexts : ~Exposed(t)

(* C27, the paths that keep it: a complete token is written out by         *)
(* nothing but the missing-parameter path of validateAndClaim.             *)
C27_OnlyMissingClaimPathExposes ==
  \A t \in TokenTexts :
    Exposed(t) => logCall.fn = "validateAndClaim" /\ logCall.missing

(* A claim with a generated token ran to its end and logged the prefix.    *)
C27_Witness ==
  /\ logCall.fn = "validateAndClaim"
  /\ ~logCall.missing
  /\ \E t \in TokenTexts, i \in 1..Len(logs) :
       /\ Len(logs[i].parts) > 1
       /\ logs[i].parts[2] = Text(Substring(t, 0, PrefixChars))
  /\ logs[Len(logs)].parts[1] = Lit("Claim transaction successful:")

(* C28: no Claim record is ever deleted; a record changes only in a step   *)
(* of validateAndClaim or of refundExpired; and a step of any other        *)
(* operation (a send proposed, confirmed or cancelled, a command or admin  *)
(* command, a reconciler run, an incoming-transaction scan) leaves every   *)
(* record as it was.                                                       *)
C28_ClaimsChangedOnlyBySettlement ==
  [][/\ Len(claims') >= Len(claims)
     /\ \A c \in 1..Len(claims) :
          /\ claims'[c] # claims[c] => (claimer' # claimer \/ sweep' # sweep)
          /\ (chatVars' # chatVars \/ auxVars' # auxVars) => claims'[c] = claims[c]]_vars

(* A send was cancelled while the store held a claim that validateAndClaim *)
(* or refundExpired had settled.                                           *)
C28_Witness ==
  /\ claims # <<>>
  /\ claims[1].status \in {"claimed", "refunded"}
  /\ \E d \in discarded : d.by = "cancel"

(* The phone whose command the log was last written for.                   *)
CommandSender ==
  IF logs # <<>> /\ logs[1].parts[1] = Lit("message_received")
  THEN logs[1].parts[2][2][1]
  ELSE ""

AdminRoutes == {"admin_reset", "admin_status", "admin_unknown"}

(* C29: an admin command is run only for a phone of the admin list; when   *)
(* any other phone sends one, neither map changes and no status report or  *)
(* other admin reply is returned.                                          *)
C29_OnlyAdminsRunAdminCommands ==
  [][/\ dispatch'.route \in AdminRoutes => CommandSender' \in AdminNumbers
     /\ (dispatch'.text \in AdminTexts /\ dispatch'.route # "stateful"
           /\ CommandSender' \notin AdminNumbers)
          => /\ UNCHANGED <<userStates, pendingTransactions>>
             /\ dispatch'.route \in {"help", "denied"}]_vars

(* A user outside the admin list sent /reset while a requester had a       *)
(* pending entry and a conversation state; both are still there.           *)
C29_Witness ==
  /\ dispatch.text = "/reset"
  /\ dispatch.route # "stateful"
  /\ CommandSender = WatchedUser
  /\ HasPending(SenderPhone)
  /\ userStates[SenderPhone] # NoState

(* C30: when a phone of the admin list with no pending entry and no state  *)
(* sends /reset, both maps are cleared; when it sends /status, the admin   *)
(* status report is returned.                                              *)
C30_AdminCommandsTakeEffect ==
  (dispatch.text \in {"/reset", "/status"} /\ dispatch.route # "stateful"
     /\ CommandSender \in AdminNumbers)
    => /\ dispatch.text = "/reset" =>
            /\ dispatch.route = "admin_reset"
            /\ \A r \in Requesters : ~HasPending(r)
            /\ \A r \in StateUsers : userStates[r] = NoState
       /\ dispatch.text = "/status" => dispatch.route = "admin_status"

(* C30, what the code does instead: every admin command of an admin is     *)
(* answered with the help for unknown commands and changes nothing.        *)
C30_AdminCommandsGetHelp ==
  [][(dispatch'.text \in AdminTexts /\ dispatch'.route # "stateful"
        /\ CommandSender' \in AdminNumbers)
       => /\ dispatch'.route = "help"
          /\ UNCHANGED <<userStates, pendingTransactions>>]_vars

(* C31: the operation is attempted again only after an error that          *)
(* categorizeError marks retryable and never after a success; an error     *)
(* marked non-retryable is the one rethrown, at once; a result is          *)
(* returned at once.                                                       *)
C31_RetriesOnlyRetryable ==
  [][/\ retry'.calls > retry.calls /\ retry.calls > 0 =>
          /\ retry.result = "none"
          /\ retry.errors # <<>>
          /\ CategorizeError(retry.errors[Len(retry.errors)])
     /\ \A i \in 1..Len(retry'.errors) :
          ~CategorizeError(retry'.errors[i]) =>
             /\ i = Len(retry'.errors)
             /\ retry'.pc = "done"
             /\ retry'.thrown = Thrown(retry'.errors[i])
             /\ retry'.calls = i
     /\ retry'.result = "returned" =>
          /\ retry'.pc = "done"
          /\ retry'.calls = Len(retry'.errors) + 1
          /\ retry'.thrown = <<"none">>]_vars

(* A retryable error was followed by a second attempt, which failed with   *)
(* an error that is not retryable.                                         *)
C31_Witness ==
  /\ retry.pc = "done"
  /\ retry.maxRetries = 3
  /\ retry.calls = 2
  /\ retry.errors = <<{"timeout"}, {"transaction failed", "insufficient balance"}>>

(* C32: withRetry ends; it invokes the operation at most maxRetries times, *)
(* the wait after attempt k is baseDelay * 2^(k-1), there is one wait      *)
(* between two attempts, and when the last attempt fails its error is      *)
(* the one rethrown.                                                       *)
C32_RetryTerminates ==
  /\ [](/\ retry.calls <= retry.maxRetries
        /\ \A k \in 1..Len(retry.waits) :
             retry.waits[k] = retry.baseDelay * 2 ^ (k - 1)
        /\ retry.pc = "attempt" => Len(retry.waits) = retry.calls
        /\ retry.pc = "done" /\ retry.calls > 0 => Len(retry.waits) = retry.calls - 1
        /\ (retry.pc = "done" /\ retry.calls = retry.maxRetries
              /\ Len(retry.errors) = retry.calls /\ retry.calls > 0)
             => retry.thrown = Thrown(retry.errors[retry.calls]))
  /\ (retry.pc \in {"attempt", "wait"} ~> retry.pc = "done")

(* Every attempt of a call with maxRetries = 3 failed with a retryable     *)
(* error and the third error was rethrown.                                 *)
C32_Witness ==
  /\ retry.pc = "done"
  /\ retry.maxRetries = 3
  /\ retry.calls = 3
  /\ Len(retry.waits) = 2
  /\ retry.thrown = Thrown({"timeout"})

(* C33: at no instant do the claim path and the expiry sweep both accept   *)
(* the same Claim: a validateAndClaim call whose checks pass at time now   *)
(* works on a Claim with now < expires_at, which findExpiringPending(now)  *)
(* does not select.                                                        *)
C33_AcceptanceDisjoint ==
  [][\A p \in Claimers :
       (StartedBy(p) /\ claimer'[p].pc = "estimate")
         => /\ now < claims[claimer'[p].rec].expires_at
            /\ \A k \in 1..Len(FindExpiringPending(now)) :
                 FindExpiringPending(now)[k] # claimer'[p].rec]_vars

(* What the code keeps: the checks pass only at or before expires_at, and  *)
(* the sweep selects only at or after it; the two meet at expires_at.      *)
C33_AcceptanceMeetsAtExpiry ==
  [][\A p \in Claimers :
       (StartedBy(p) /\ claimer'[p].pc = "estimate")
         => /\ now <= claims[claimer'[p].rec].expires_at
            /\ \A k \in 1..Len(FindExpiringPending(now)) :
                 FindExpiringPending(now)[k] = claimer'[p].rec
                   => now = claims[claimer'[p].rec].expires_at]_vars

(* C34 as stated: for every amount and gas estimate of the grid the sweep  *)
(* goes on to broadcast the refund exactly when the claim path's gas check *)
(* accepts that amount and estimate.                                       *)
C34_RefundPolicyIsClaimPolicy ==
  policyResult.refund # "none" =>
    (policyResult.refund = "ok" <=> policyResult.claim = "ok")

(* What the code keeps: whatever the claim path's check accepts the        *)
(* sweep's check accepts too.                                              *)
C34_ClaimAcceptsImpliesRefundAccepts ==
  policyResult.claim = "ok" => policyResult.refund = "ok"

(* A step in which sweep run s ends the iteration of a record whose refund *)
(* transfer it has broadcast.                                              *)
IterationEndsAfterBroadcast(s) ==
  /\ sweep[s].pc \in {"write", "catch"}
  /\ sweep[s].tx # 0
  /\ sweep'[s].expired # sweep[s].expired

(* C35: when a validateAndClaim call or a sweep iteration ends after its   *)
(* settlement transfer was broadcast, the Claim is no longer pending, also *)
(* when the store write after the broadcast fails.                         *)
C35_BroadcastNeverLeftPending ==
  [][/\ \A p \in Claimers :
          EndsAfterBroadcast(p) => claims'[claimer[p].rec].status # "pending"
     /\ \A s \in Sweeps :
          IterationEndsAfterBroadcast(s)
            => claims'[Head(sweep[s].expired)].status # "pending"]_vars

(* What the code keeps: the record is left pending after a broadcast only  *)
(* by a step in which the store rejected the write.                        *)
C35_PendingOnlyIfWriteFails ==
  [][/\ \A p \in Claimers :
          (EndsAfterBroadcast(p) /\ claims'[claimer[p].rec].status = "pending")
            => claims' = claims /\ claimer'[p].reason = "store_error"
     /\ \A s \in Sweeps :
          (IterationEndsAfterBroadcast(s)
             /\ claims'[Head(sweep[s].expired)].status = "pending")
            => /\ claims' = claims
               /\ sweep[s].pc = "catch"
               /\ sweep[s].error = "store_error"
               /\ sweep'[s] = IdleSweep]_vars

(* A step in which execution e returns, after success or an error.         *)
ExecutionEnds(e) ==
  exec[e].pc \in {"finish", "catch"} /\ exec'[e].pc \in {"done", "failed"}

(* C36: when an execution ends while its requester holds a pending entry   *)
(* proposed after the executed one was confirmed, that entry is still in   *)
(* the map after the step and a confirm finds it.                          *)
C36_CompletionKeepsNewerProposal ==
  [][\A e \in Executors :
       (/\ ExecutionEnds(e)
        /\ HasPending(exec[e].phone)
        /\ pendingTransactions[exec[e].phone].id # exec[e].data.id)
         => pendingTransactions'[exec[e].phone] = pendingTransactions[exec[e].phone]]_vars

(* What the code keeps: an execution that ends leaves the requester        *)
(* without an entry, whichever proposal the entry came from.               *)
C36_CompletionClearsRequester ==
  [][\A e \in Executors :
       ExecutionEnds(e) => pendingTransactions'[exec[e].phone] = NoEntry]_vars

C37_OneBroadcastPerAttempt ==
  /\ retry.broadcasts <= retry.calls
  /\ retry.calls <= ExecutorRetries
  /\ retry.calls = 2 => CategorizeError(retry.errors[1])

(* Record i is pending and its transaction has a receipt.                  *)
AwaitsReconciling(i) ==
  /\ i <= Len(transactions)
  /\ transactions[i].status = "pending"
  /\ receipts[transactions[i].tx_hash] # "none"

(* C38: with the reconciler's timer firing again and again, every pending  *)
(* record whose transaction has a receipt is eventually success or failed, *)
(* however many other pending records there are.                           *)
C38_ReceiptEventuallyReconciled ==
  \A i \in MinedSends :
    AwaitsReconciling(i)
      ~> (i <= Len(transactions) /\ transactions[i].status \in {"success", "failed"})

(* What the code keeps: the record is reconciled unless PendingReadLimit   *)
(* newer records have been written after it.                               *)
C38_ReconciledUnlessCrowdedOut ==
  \A i \in MinedSends :
    AwaitsReconciling(i)
      ~> (i <= Len(transactions)
            /\ \/ transactions[i].status \in {"success", "failed"}
               \/ Len(transactions) - i >= PendingReadLimit)

(* The texts a requester can send, to any of the handlers.                 *)
InboundTexts == Texts \cup CommandTexts \cup StatefulTexts

Range(s) == {s[k] : k \in 1..Len(s)}

(* C40: messages reach the socket in the order of their sendMessage calls, *)
(* across a disconnect and reconnect: a message is handed to the socket    *)
(* before a message of an earlier call only when that earlier message had  *)
(* been handed to the socket before, and no message is handed over while   *)
(* an earlier one is still queued.                                         *)
C40_SocketOrderIsCallOrder ==
  \A i, j \in 1..Len(wa.socket) :
    (i < j /\ wa.socket[i] > wa.socket[j])
      => \E k \in 1..(i - 1) : wa.socket[k] = wa.socket[j]

(* What the code keeps: no message is given up before it was handed to the *)
(* socket, and the open handler hands the queued messages over in the      *)
(* order of the queue.                                                     *)
C40_QueuedReachSocketInQueueOrder ==
  [][/\ \A id \in 1..wa'.called :
          id \in Range(wa'.socket) \cup Range(wa'.messageQueue) \cup Range(wa'.flushing)
     /\ (wa'.flushing # wa.flushing /\ wa.flushing # <<>>)
          => wa'.flushing = Tail(wa.flushing)
     /\ (wa.flushing = <<>> /\ wa'.flushing # <<>>)
          => wa'.flushing = wa.messageQueue /\ wa'.messageQueue = <<>>
     /\ Len(wa'.socket) > Len(wa.socket) =>
          \/ wa'.flushing # <<>> /\ wa'.socket[Len(wa'.socket)] = Head(wa'.flushing)
          \/ wa'.socket[Len(wa'.socket)] = wa'.called /\ wa'.called > wa.called]_vars

TypeOK ==
  /\ now \in 0..MaxTime
  /\ build \in ClaimBuilds
  /\ Len(claims) <= SweepClaims
  /\ Len(broadcasts) <= MaxBroadcasts
====
